---- MODULE Spec2Model ----
(***************************************************************************)
(* ACCRecorder: the session monitor (src/core/session_monitor.py), the     *)
(* curve detector (src/curve_detector.py) and the broadcasting client      *)
(* (src/core/broadcasting/client.py) as state machines.                    *)
(*                                                                         *)
(* Time is counted in units of the polling interval (0.5 s), so the        *)
(* confirmation window of 2.0 s is 4 units.  Optional values are           *)
(* sequences: <<>> is None, <<x>> is the value x.                          *)
(***************************************************************************)
EXTENDS Integers, Sequences, FiniteSets, TLC

\* ------------------------------------------------------------------ bounds
\* Wall-clock horizon of a run, in polling intervals.
MaxClock == 8
\* Longest gap between two ticks, in polling intervals (sleep plus the time
\* the callbacks of the previous tick took).
MaxStep == 2
\* Number of update() calls of a curve-detector run.
MaxUpdates == 6
\* Number of update() calls of a run that outgrows the angle history.
MaxLongUpdates == 11
\* Number of ticks of a run in which a call raises.
MaxRaises == 1
\* Number of connect() calls of a broadcasting-client run.
MaxConnects == 1
\* Number of connect() calls of a run of connect() and disconnect() calls alone.
MaxLifecycleConnects == 2
\* Number of connect() calls of a session that receives datagrams in between.
MaxSessionConnects == 2
\* Number of get_standings() calls, and of datagrams processed during one.
MaxCalls == 1
MaxOverlaps == 2
\* Number of calls made on a telemetry reader.
MaxReaderCalls == 4
\* Number of polling threads a run of start_monitoring() calls creates.
MaxStarts == 2

\* ------------------------------------------------------- program constants
\* config['min_session_time_ms']
MinSessionTimeMs == 100
\* config['time_check_duration'] = 2.0 s, in units of config['update_interval'] = 0.5 s
TimeCheckDuration == 4
\* time.sleep(1.0) after a tick that raised, in units of 0.5 s
ErrorSleep == 2
\* CurveDetector defaults
ThresholdAngle == 15
MinDuration == 2
CooldownSamples == 3
\* deque(maxlen=10)
HistoryMaxLen == 10

None == <<>>
Some(x) == <<x>>

\* SessionStatus
SessionStatus == {"UNKNOWN", "OFF", "MENU", "REPLAY", "LIVE_PAUSED", "LIVE_WAITING", "LIVE_RACING"}

\* What ACCTelemetry.get_session_info() can report as 'status' (statuses.get(status, 'Unknown')).
StatusStrings == {"Off", "Replay", "Live", "Pause", "Unknown"}
\* Values of 'current_time_ms' that exercise every comparison of the monitor:
\* 0, positive below the threshold, the threshold itself, above it.
SessionTimes == {0, 50, 100, 150}
\* Values of 'session_type'.
SessionTypes == {"Race", "Practice"}

\* The result of get_session_info(): a dict, or None (available = FALSE) when
\* the reader is not connected or the read raised.
NoSnapshot == [available |-> FALSE, status |-> "Off", time |-> 0, stype |-> "Unknown"]
Snapshots == [available : {TRUE}, status : StatusStrings, time : SessionTimes, stype : SessionTypes]

\* The callbacks or calls of one tick that may raise.
RaisePoints == {"get_session_info", "on_race_started", "on_race_ended", "on_status_changed"}

VARIABLES
    \* ACCSessionMonitor
    is_monitoring, current_status, session_type, is_in_race, race_started_time,
    session_time_positive_since, last_session_time_ms,
    \* the telemetry reader the monitor polls, and wall-clock time
    telemetry_connected, clock,
    \* history of the last operation: its name, the snapshot a tick read, the
    \* callbacks it invoked in order, whether it raised, and the wall-clock
    \* time of the first tick of the current unbroken run of LIVE_RACING ticks,
    \* every race callback invoked so far, and the number of ticks that raised
    op, snap, fired, raised, streak_start, race_log, n_raised,
    \* CurveDetector
    history, in_curve, curve_samples, cooldown_counter, current_curve_direction,
    total_curves, left_curves, right_curves, curves_log, n_updates,
    \* what the last update() returned as 'curve_detected' and 'curve_finished',
    \* and for every logged curve the branch of update() that closed it
    curve_detected, curve_finished, closures,
    \* ACCBroadcastingClient; socket is "none", "open" or "closed", and threads
    \* are the receive threads that have not left their loop
    socket, connected, running, receive_thread, threads,
    entry_list, realtime_data, session_info, track_data,
    \* the datagrams sent so far, the datagram the last loop iteration received,
    \* the last operation of the client with the steps it took and whether a
    \* call in it raised, the <<tag, car index>> of the key that datagram added
    \* to a dict, and the number of connect() calls
    sent, received, cop, added, n_connects,
    \* the bytes of every datagram handed to sendto so far, and the connection
    \* id of the last RegistrationResult the receive loop decoded
    wire, registered,
    \* ACCTelemetry: each region handle is "none" (None), "open" or "closed" (a
    \* closed mmap object); its connected flag is telemetry_connected.  rop is
    \* the last call on the reader: its name, whether it raised, and what it
    \* returned as a boolean (connect) and as a snapshot (the get_ calls), and
    \* the number of bytes the call decoded; rlog lists the calls made so far
    physics_handle, graphics_handle, static_handle, rop, rlog,
    \* the arguments of a _send_register_command call (strings are sequences
    \* of code points), whether it was called, whether it raised and the bytes
    \* it handed to sendto, and what the receiver decoded from them
    register_args, register_sent, register_decoded,
    \* a get_standings() call of a caller thread: whether it is under way, how
    \* many items its dict iterator has yielded and the size the dict had when
    \* the iterator was made, its local list, what it returned or that it
    \* raised; and, of the datagrams processed while it was under way, their
    \* number, the standings after each, and whether one added a realtime key
    call,
    \* the polling threads of the monitor: self.monitor_thread (None, or the
    \* number of the thread it refers to), the threads whose _monitoring_loop
    \* has not returned, the number of threads created so far, and the last
    \* start_monitoring, stop_monitoring or loop iteration with its outcome
    monitor_thread, polling, n_starts, mop,
    \* the 'packet_id' of the snapshot the last tick read, None when it read none
    packet_id

monitorVars == <<is_monitoring, current_status, session_type, is_in_race, race_started_time,
                 session_time_positive_since, last_session_time_ms, telemetry_connected,
                 clock, op, snap, fired, raised, streak_start, race_log, n_raised>>
curveVars == <<history, in_curve, curve_samples, cooldown_counter, current_curve_direction,
               total_curves, left_curves, right_curves, curves_log, n_updates,
               curve_detected, curve_finished, closures>>
clientVars == <<socket, connected, running, receive_thread, threads,
                entry_list, realtime_data, session_info, track_data,
                sent, received, cop, added, n_connects, wire, registered>>
readerVars == <<physics_handle, graphics_handle, static_handle, rop, rlog>>
registerVars == <<register_args, register_sent, register_decoded>>
callerVars == <<call>>
threadVars == <<monitor_thread, polling, n_starts, mop>>
packetVars == <<packet_id>>
vars == <<monitorVars, curveVars, clientVars, readerVars, registerVars, callerVars,
          threadVars, packetVars>>

\* What the calls on one object leave alone: the other objects
exceptMonitor == <<curveVars, clientVars, readerVars, registerVars, callerVars,
                   threadVars, packetVars>>
exceptCurve == <<monitorVars, clientVars, readerVars, registerVars, callerVars,
                 threadVars, packetVars>>
exceptClient == <<monitorVars, curveVars, readerVars, registerVars, callerVars,
                  threadVars, packetVars>>
exceptReader == <<monitorVars, curveVars, clientVars, registerVars, callerVars,
                  threadVars, packetVars>>
exceptMonitorAndReader == <<curveVars, clientVars, registerVars, callerVars,
                            threadVars, packetVars>>
exceptRegister == <<monitorVars, curveVars, clientVars, readerVars, callerVars,
                    threadVars, packetVars>>
exceptClientAndCaller == <<monitorVars, curveVars, readerVars, registerVars,
                           threadVars, packetVars>>
exceptMonitorAndThreads == <<curveVars, clientVars, readerVars, registerVars, callerVars,
                             packetVars>>
exceptMonitorReaderAndThreads == <<curveVars, clientVars, registerVars, callerVars, packetVars>>
exceptMonitorAndPacket == <<curveVars, clientVars, readerVars, registerVars, callerVars,
                            threadVars>>

\* ------------------------------------------------------------ the monitor
\* The monitor's fields as one record, threaded through the calls of a tick.
\* fired lists the callbacks invoked so far; raised says that one of them
\* raised, which unwinds every caller up to _monitoring_loop.
Monitor == [current_status |-> current_status, session_type |-> session_type,
            is_in_race |-> is_in_race, race_started_time |-> race_started_time,
            since |-> session_time_positive_since, last |-> last_session_time_ms,
            fired |-> <<>>, raised |-> FALSE]

\* Invoking a callback: it is recorded, and it raises when it is the one in bad.
Invoke(m, callback, bad) ==
    [m EXCEPT !.fired = Append(@, callback), !.raised = (callback = bad)]

\* _determine_status that takes a status it does not know for the menus
DetermineStatusWithMenu(status_str, session_time_ms) ==
    IF status_str = "Off" THEN "OFF"
    ELSE IF status_str = "Replay" THEN "REPLAY"
    ELSE IF status_str = "Pause" THEN "LIVE_PAUSED"
    ELSE IF status_str = "Live" THEN
        IF session_time_ms > MinSessionTimeMs THEN "LIVE_RACING" ELSE "LIVE_WAITING"
    ELSE "MENU"

\* _determine_status with the threshold itself taken as racing
DetermineStatusAtThreshold(status_str, session_time_ms) ==
    IF status_str = "Off" THEN "OFF"
    ELSE IF status_str = "Replay" THEN "REPLAY"
    ELSE IF status_str = "Pause" THEN "LIVE_PAUSED"
    ELSE IF status_str = "Live" THEN
        IF session_time_ms >= MinSessionTimeMs THEN "LIVE_RACING" ELSE "LIVE_WAITING"
    ELSE "UNKNOWN"

\* _determine_status
DetermineStatus(status_str, session_time_ms) ==
    IF status_str = "Off" THEN "OFF"
    ELSE IF status_str = "Replay" THEN "REPLAY"
    ELSE IF status_str = "Pause" THEN "LIVE_PAUSED"
    ELSE IF status_str = "Live" THEN
        IF session_time_ms > MinSessionTimeMs THEN "LIVE_RACING" ELSE "LIVE_WAITING"
    ELSE "UNKNOWN"

\* _start_race
StartRace(m, info, now, bad) ==
    IF m.is_in_race THEN m
    ELSE Invoke([m EXCEPT !.is_in_race = TRUE,
                          !.race_started_time = Some(now),
                          !.session_type = info.stype],
                "on_race_started", bad)

\* _end_race that forgets to clear is_in_race
EndRaceKeepsFlag(m, info, bad) ==
    IF ~m.is_in_race THEN m
    ELSE LET c == Invoke(m, "on_race_ended", bad)
         IN  IF c.raised THEN c
             ELSE [c EXCEPT !.race_started_time = None, !.session_type = "None"]

\* _end_race: the callback runs before the reset
EndRace(m, info, bad) ==
    IF ~m.is_in_race THEN m
    ELSE LET c == Invoke(m, "on_race_ended", bad)
         IN  IF c.raised THEN c
             ELSE [c EXCEPT !.is_in_race = FALSE,
                            !.race_started_time = None,
                            !.session_type = "None"]

\* _update_status that notifies without comparing
UpdateStatusAlways(m, new_status, bad) ==
    Invoke([m EXCEPT !.current_status = new_status], "on_status_changed", bad)

\* _update_status: the assignment precedes the callback
UpdateStatus(m, new_status, bad) ==
    IF new_status # m.current_status
    THEN Invoke([m EXCEPT !.current_status = new_status], "on_status_changed", bad)
    ELSE m

\* The confirmation test of _detect_race_transitions
StartConfirmed(now, since) == (now - since) >= TimeCheckDuration

\* The statuses that end a race, a pause among them
RaceEndStatusWithPause(new_status) == new_status \in {"OFF", "MENU", "REPLAY", "LIVE_PAUSED"}

\* The statuses that end a race
RaceEndStatus(new_status) == new_status \in {"OFF", "MENU", "REPLAY"}

\* The session-time reset, the last time compared with the threshold instead of 0
SessionTimeResetAboveThreshold(session_time_ms, last) ==
    session_time_ms = 0 /\ last > MinSessionTimeMs

\* The session-time reset that ends a race
SessionTimeReset(session_time_ms, last) == session_time_ms = 0 /\ last > 0

\* The if / elif / elif chain of _detect_race_transitions
RaceTransition(m, new_status, session_time_ms, info, now, bad) ==
    IF new_status = "LIVE_RACING" /\ ~m.is_in_race THEN
        IF session_time_ms > MinSessionTimeMs THEN
            IF m.since = None THEN [m EXCEPT !.since = Some(now)]
            ELSE IF StartConfirmed(now, m.since[1]) THEN StartRace(m, info, now, bad)
            ELSE m
        ELSE [m EXCEPT !.since = None]
    ELSE IF m.is_in_race /\ RaceEndStatus(new_status) THEN EndRace(m, info, bad)
    ELSE IF m.is_in_race /\ SessionTimeReset(session_time_ms, m.last) THEN EndRace(m, info, bad)
    ELSE m

\* _detect_race_transitions: the chain, then the reset of the debounce timestamp
DetectRaceTransitions(m, new_status, session_time_ms, info, now, bad) ==
    LET t == RaceTransition(m, new_status, session_time_ms, info, now, bad)
    IN  IF t.raised THEN t
        ELSE IF new_status # "LIVE_RACING" THEN [t EXCEPT !.since = None]
        ELSE t

\* The branch of _check_session_state taken without a snapshot
NoSessionInfo(m, bad) == UpdateStatus(m, "OFF", bad)

\* _check_session_state that updates the status before it looks for a race
\* transition
CheckSessionStateStatusFirst(m, info, now, bad) ==
    IF bad = "get_session_info" THEN [m EXCEPT !.raised = TRUE]
    ELSE IF ~info.available THEN NoSessionInfo(m, bad)
    ELSE LET new_status == DetermineStatus(info.status, info.time)
             u == UpdateStatus(m, new_status, bad)
             d == IF u.raised THEN u
                  ELSE DetectRaceTransitions(u, new_status, info.time, info, now, bad)
         IN  IF d.raised THEN d ELSE [d EXCEPT !.last = info.time]

\* _check_session_state
CheckSessionState(m, info, now, bad) ==
    IF bad = "get_session_info" THEN [m EXCEPT !.raised = TRUE]
    ELSE IF ~info.available THEN NoSessionInfo(m, bad)
    ELSE LET new_status == DetermineStatus(info.status, info.time)
             d == DetectRaceTransitions(m, new_status, info.time, info, now, bad)
             u == IF d.raised THEN d ELSE UpdateStatus(d, new_status, bad)
         IN  IF u.raised THEN u ELSE [u EXCEPT !.last = info.time]

\* What the monitor makes of a tick: the classification of the snapshot, OFF without one.
Classified(info) == IF info.available THEN DetermineStatus(info.status, info.time) ELSE "OFF"

\* get_session_info(): None when the reader is not connected; otherwise the
\* decoded region, or None when the read raised.
SessionInfoResults == IF telemetry_connected THEN Snapshots \cup {NoSnapshot} ELSE {NoSnapshot}

IsRaceCallback(callback) == callback \in {"on_race_started", "on_race_ended"}

\* One iteration of _monitoring_loop at wall-clock time now, with bad the
\* call that raises ("none" when none does).
LoopIteration(info, now, bad) ==
    LET r == CheckSessionState(Monitor, info, now, bad)
        racing == Classified(info) = "LIVE_RACING"
    IN  /\ current_status' = r.current_status
        /\ session_type' = r.session_type
        /\ is_in_race' = r.is_in_race
        /\ race_started_time' = r.race_started_time
        /\ session_time_positive_since' = r.since
        /\ last_session_time_ms' = r.last
        /\ fired' = r.fired
        /\ raised' = r.raised
        /\ clock' = now
        /\ op' = "tick"
        /\ snap' = info
        /\ streak_start' = IF ~racing THEN None
                           ELSE IF streak_start = None THEN Some(now) ELSE streak_start
        /\ race_log' = race_log \o SelectSeq(r.fired, IsRaceCallback)
        /\ n_raised' = IF r.raised THEN n_raised + 1 ELSE n_raised
        /\ UNCHANGED <<is_monitoring, telemetry_connected>>

\* The sleep that precedes an iteration: update_interval, or 1.0 s after an
\* iteration that raised, plus whatever the callbacks took.
Gaps == {d \in 1..MaxStep : (raised => d >= ErrorSleep) /\ clock + d <= MaxClock}

\* A tick in which nothing raises.
Tick ==
    /\ is_monitoring
    /\ \E d \in Gaps, info \in SessionInfoResults : LoopIteration(info, clock + d, "none")
    /\ UNCHANGED exceptMonitor

\* A tick in which a call raises: the exception reaches _monitoring_loop.
TickRaising ==
    /\ is_monitoring
    /\ n_raised < MaxRaises
    /\ \E d \in Gaps, info \in SessionInfoResults, bad \in RaisePoints :
          /\ CheckSessionState(Monitor, info, clock + d, bad).raised
          /\ LoopIteration(info, clock + d, bad)
    /\ UNCHANGED exceptMonitor

monitorFields == <<current_status, session_type, is_in_race, race_started_time,
                   session_time_positive_since, last_session_time_ms>>

\* start_monitoring: telemetry.connect() succeeds when already connected and
\* may fail otherwise.
StartMonitoring ==
    /\ \/ /\ is_monitoring
          /\ UNCHANGED <<is_monitoring, telemetry_connected>>
       \/ /\ ~is_monitoring
          /\ \E opened \in BOOLEAN :
                /\ telemetry_connected' = (telemetry_connected \/ opened)
                /\ is_monitoring' = telemetry_connected'
    /\ op' = "start_monitoring"
    /\ fired' = <<>>
    /\ UNCHANGED <<monitorFields, clock, snap, raised, streak_start, race_log, n_raised, exceptMonitor>>

\* stop_monitoring that closes the race under way
StopMonitoringEndsRace ==
    /\ is_monitoring' = FALSE
    /\ telemetry_connected' = FALSE
    /\ op' = "stop_monitoring"
    /\ fired' = IF is_in_race THEN <<"on_race_ended">> ELSE <<>>
    /\ race_log' = race_log \o fired'
    /\ is_in_race' = FALSE
    /\ race_started_time' = None
    /\ session_type' = "None"
    /\ UNCHANGED <<current_status, session_time_positive_since, last_session_time_ms,
                   clock, snap, raised, streak_start, n_raised, exceptMonitor>>

\* stop_monitoring
StopMonitoring ==
    /\ is_monitoring' = FALSE
    /\ telemetry_connected' = FALSE
    /\ op' = "stop_monitoring"
    /\ fired' = <<>>
    /\ UNCHANGED <<monitorFields, clock, snap, raised, streak_start, race_log, n_raised, exceptMonitor>>

\* The reader is handed to the monitor by its owner (__init__), who may
\* connect and disconnect it on its own: ACCTelemetry.connect, succeeding
ReaderConnect ==
    /\ ~telemetry_connected
    /\ telemetry_connected' = TRUE
    /\ op' = "reader_connect"
    /\ fired' = <<>>
    /\ UNCHANGED <<is_monitoring, monitorFields, clock, snap, raised, streak_start, race_log, n_raised, exceptMonitor>>

\* ACCTelemetry.disconnect, called by the reader's owner
ReaderDisconnect ==
    /\ telemetry_connected
    /\ telemetry_connected' = FALSE
    /\ op' = "reader_disconnect"
    /\ fired' = <<>>
    /\ UNCHANGED <<is_monitoring, monitorFields, clock, snap, raised, streak_start, race_log, n_raised, exceptMonitor>>

\* ACCSessionMonitor.__init__
MonitorInit ==
    /\ is_monitoring = FALSE
    /\ current_status = "UNKNOWN"
    /\ session_type = "None"
    /\ is_in_race = FALSE
    /\ race_started_time = None
    /\ session_time_positive_since = None
    /\ last_session_time_ms = 0
    /\ telemetry_connected = FALSE
    /\ clock = 0
    /\ op = "init"
    /\ snap = NoSnapshot
    /\ fired = <<>>
    /\ raised = FALSE
    /\ streak_start = None
    /\ race_log = <<>>
    /\ n_raised = 0


\* ------------------------------------------------------ the curve detector
\* Steering angles, in degrees: beyond, at and within the threshold on both
\* sides, and the peak of a ramp.
Angles == {-20, -15, 0, 15, 20, 30}

\* The detector's fields as one record.  A log entry's timestamp is the
\* caller's argument, stored as given; it is left out.
Detector == [in_curve |-> in_curve, curve_samples |-> curve_samples,
             cooldown_counter |-> cooldown_counter,
             current_curve_direction |-> current_curve_direction,
             total_curves |-> total_curves, left_curves |-> left_curves,
             right_curves |-> right_curves, curves_log |-> curves_log]

\* The direction test with the threshold itself counted as turning
DirectionAtThreshold(steer_angle) ==
    IF steer_angle >= ThresholdAngle THEN "right"
    ELSE IF steer_angle <= -ThresholdAngle THEN "left"
    ELSE "None"

\* The direction of a sample (update, "Determinar direccion actual")
Direction(steer_angle) ==
    IF steer_angle > ThresholdAngle THEN "right"
    ELSE IF steer_angle < -ThresholdAngle THEN "left"
    ELSE "None"

\* append on a deque without maxlen
HistoryAppendUnbounded(h, steer_angle) == Append(h, steer_angle)

\* deque(maxlen=10).append
HistoryAppend(h, steer_angle) ==
    IF Len(h) >= HistoryMaxLen THEN Append(Tail(h), steer_angle) ELSE Append(h, steer_angle)

\* Registering a curve without counting it by direction
RegisterCurveUnsplit(c) ==
    [c EXCEPT !.total_curves = @ + 1,
              !.curves_log = Append(@, [curve_number |-> c.total_curves + 1,
                                        direction |-> c.current_curve_direction,
                                        duration_samples |-> c.curve_samples])]

\* _register_curve
RegisterCurve(c) ==
    [c EXCEPT !.total_curves = @ + 1,
              !.left_curves = IF c.current_curve_direction = "left" THEN @ + 1 ELSE @,
              !.right_curves = IF c.current_curve_direction = "right" THEN @ + 1 ELSE @,
              !.curves_log = Append(@, [curve_number |-> c.total_curves + 1,
                                        direction |-> c.current_curve_direction,
                                        duration_samples |-> c.curve_samples])]

\* A curve of a single sample counted as long enough
LongEnoughOneSample(c) == c.curve_samples >= 1

\* Every curve counted as long enough
LongEnoughAlways(c) == c.curve_samples >= 0

\* The curve is long enough to count
LongEnough(c) == c.curve_samples >= MinDuration

\* The direction change that goes on counting samples instead of restarting at 1
DirectionChangeKeepsCount(c, current_direction) ==
    LET r == IF LongEnough(c) THEN RegisterCurve(c) ELSE c
    IN  [r EXCEPT !.curve_samples = @ + 1, !.current_curve_direction = current_direction]

\* update, a turning sample while a curve of the other direction is open
DirectionChange(c, current_direction) ==
    LET r == IF LongEnough(c) THEN RegisterCurve(c) ELSE c
    IN  [r EXCEPT !.curve_samples = 1, !.current_curve_direction = current_direction]

\* The turning sample that leaves the cooldown counter as it is
TurningKeepsCooldown(c, current_direction) ==
    IF ~c.in_curve
    THEN [c EXCEPT !.in_curve = TRUE, !.curve_samples = 1,
                   !.current_curve_direction = current_direction]
    ELSE IF current_direction # c.current_curve_direction
    THEN DirectionChange(c, current_direction)
    ELSE [c EXCEPT !.curve_samples = @ + 1]

\* update, a turning sample
Turning(c, current_direction) ==
    LET z == [c EXCEPT !.cooldown_counter = 0]
    IN  IF ~z.in_curve
        THEN [z EXCEPT !.in_curve = TRUE, !.curve_samples = 1,
                       !.current_curve_direction = current_direction]
        ELSE IF current_direction # z.current_curve_direction
        THEN DirectionChange(z, current_direction)
        ELSE [z EXCEPT !.curve_samples = @ + 1]

\* The cooldown test one sample late
CooldownOverLate(c) == c.cooldown_counter > CooldownSamples

\* The cooldown has run out
CooldownOver(c) == c.cooldown_counter >= CooldownSamples

\* The straight sample that ends the cooldown but leaves the curve open
StraightKeepsCurve(c) ==
    IF ~c.in_curve THEN c
    ELSE LET k == [c EXCEPT !.cooldown_counter = @ + 1]
         IN  IF CooldownOver(k)
             THEN IF LongEnough(k) THEN RegisterCurve(k) ELSE k
             ELSE k

\* update, a straight sample
Straight(c) ==
    IF ~c.in_curve THEN c
    ELSE LET k == [c EXCEPT !.cooldown_counter = @ + 1]
         IN  IF CooldownOver(k)
             THEN LET r == IF LongEnough(k) THEN RegisterCurve(k) ELSE k
                  IN  [r EXCEPT !.in_curve = FALSE, !.curve_samples = 0,
                                !.current_curve_direction = "None"]
             ELSE k

\* update's effect on the detector's fields
UpdateDetector(c, steer_angle) ==
    LET current_direction == Direction(steer_angle)
    IN  IF current_direction # "None" THEN Turning(c, current_direction) ELSE Straight(c)

\* update's return value: 'curve_finished' is set by both closing branches,
\* 'curve_detected' by the cooldown branch only
UpdateResult(c, steer_angle) ==
    LET current_direction == Direction(steer_angle)
        k == [c EXCEPT !.cooldown_counter = @ + 1]
        by_direction_change == /\ current_direction # "None"
                               /\ c.in_curve
                               /\ current_direction # c.current_curve_direction
                               /\ LongEnough(c)
        by_cooldown == /\ current_direction = "None"
                       /\ c.in_curve
                       /\ CooldownOver(k)
                       /\ LongEnough(k)
    IN  [curve_detected |-> by_cooldown, curve_finished |-> by_direction_change \/ by_cooldown]

SetDetector(r) ==
    /\ in_curve' = r.in_curve
    /\ curve_samples' = r.curve_samples
    /\ cooldown_counter' = r.cooldown_counter
    /\ current_curve_direction' = r.current_curve_direction
    /\ total_curves' = r.total_curves
    /\ left_curves' = r.left_curves
    /\ right_curves' = r.right_curves
    /\ curves_log' = r.curves_log

\* CurveDetector.update, at most max times, on one of the given angles
UpdateWith(angles, max) ==
    /\ n_updates < max
    /\ \E steer_angle \in angles :
          /\ history' = HistoryAppend(history, steer_angle)
          /\ SetDetector(UpdateDetector(Detector, steer_angle))
          /\ LET result == UpdateResult(Detector, steer_angle)
             IN  /\ curve_detected' = result.curve_detected
                 /\ curve_finished' = result.curve_finished
                 /\ closures' = IF ~result.curve_finished THEN closures
                                ELSE Append(closures, IF result.curve_detected THEN "cooldown"
                                                      ELSE "direction_change")
    /\ n_updates' = n_updates + 1
    /\ UNCHANGED exceptCurve

\* CurveDetector.update
Update == UpdateWith(Angles, MaxUpdates)

\* CurveDetector.update in a run longer than the history, on a left, a
\* straight and a right angle
LongUpdate == UpdateWith({-20, 0, 20}, MaxLongUpdates)

\* CurveDetector.reset
Reset ==
    /\ history' = <<>>
    /\ SetDetector([in_curve |-> FALSE, curve_samples |-> 0, cooldown_counter |-> 0,
                    current_curve_direction |-> "None", total_curves |-> 0,
                    left_curves |-> 0, right_curves |-> 0, curves_log |-> <<>>])
    /\ closures' = <<>>
    /\ UNCHANGED <<n_updates, curve_detected, curve_finished, exceptCurve>>

\* CurveDetector.__init__
CurveInit ==
    /\ history = <<>>
    /\ in_curve = FALSE
    /\ curve_samples = 0
    /\ cooldown_counter = 0
    /\ current_curve_direction = "None"
    /\ total_curves = 0
    /\ left_curves = 0
    /\ right_curves = 0
    /\ curves_log = <<>>
    /\ n_updates = 0
    /\ curve_detected = FALSE
    /\ curve_finished = FALSE
    /\ closures = <<>>

\* ------------------------------------------------- the broadcasting client
\* Strings are sequences of characters, so that joining, trimming and a read
\* cut short are computed.  A dict is the sequence of its <<key, value>> items
\* in insertion order; the dicts session_info and track_data, which are
\* replaced whole, are <<>> when empty and <<record>> when filled.
Unknown == <<"U", "n", "k", "n", "o", "w", "n">>

RECURSIVE LStrip(_)
LStrip(s) == IF Len(s) > 0 /\ Head(s) = " " THEN LStrip(Tail(s)) ELSE s

RECURSIVE RStrip(_)
RStrip(s) == IF Len(s) > 0 /\ s[Len(s)] = " " THEN RStrip(SubSeq(s, 1, Len(s) - 1)) ELSE s

\* str.strip
Strip(s) == RStrip(LStrip(s))

EmptyDict == <<>>

\* key in d
DictKeys(d) == {d[i][1] : i \in 1..Len(d)}

\* d[key]
DictGet(d, key) == d[CHOOSE i \in 1..Len(d) : d[i][1] = key][2]

\* dict.setdefault: a key already present keeps its value
DictSetDefault(d, key, value) ==
    IF key \in DictKeys(d) THEN d ELSE Append(d, <<key, value>>)

\* d[key] = value: a key already present keeps its place in the order
DictSet(d, key, value) ==
    IF key \in DictKeys(d)
    THEN [i \in 1..Len(d) |-> IF d[i][1] = key THEN <<key, value>> ELSE d[i]]
    ELSE Append(d, <<key, value>>)

\* InboundMessageTypes
REGISTRATION_RESULT == 1
REALTIME_UPDATE == 2
REALTIME_CAR_UPDATE == 3
ENTRY_LIST == 4
TRACK_DATA == 5
ENTRY_LIST_CAR == 6
BROADCASTING_EVENT == 7

\* OutboundMessageTypes
REGISTER_COMMAND_APPLICATION == 1
UNREGISTER_COMMAND_APPLICATION == 9
REQUEST_ENTRY_LIST == 10
REQUEST_TRACK_DATA == 11

\* A datagram is its tag, the message it carries and the number of bytes of it
\* that arrived (the tag byte included).  The message is laid out on the wire
\* as a sequence of fields: a fixed-width field of width bytes, or a string,
\* which is one length byte followed by that many bytes.
Fixed(width, value) == [kind |-> "fixed", width |-> width, value |-> value]
String(s) == [kind |-> "string", width |-> Len(s), value |-> s]

WireSize(item) == IF item.kind = "fixed" THEN item.width ELSE 1 + item.width

RECURSIVE PayloadSize(_)
PayloadSize(items) ==
    IF Len(items) = 0 THEN 0 ELSE WireSize(Head(items)) + PayloadSize(Tail(items))

Min(a, b) == IF a <= b THEN a ELSE b

\* BytesIO(data[1:]): the bytes left to read, the values read so far, and
\* whether a read raised.
Reader(data) == [left |-> data.size - 1, out |-> <<>>, raised |-> FALSE]

\* struct.unpack(fmt, reader.read(width)): struct.error when fewer than width
\* bytes are left
ReadFixed(rd, item) ==
    IF rd.left < item.width THEN [rd EXCEPT !.raised = TRUE]
    ELSE [rd EXCEPT !.left = @ - item.width, !.out = Append(@, item.value)]

\* The length byte is unpacked; reader.read(length).decode('utf-8') returns
\* the bytes that are left when they are fewer than length, and does not raise.
ReadString(rd, item) ==
    IF rd.left < 1 THEN [rd EXCEPT !.raised = TRUE]
    ELSE LET n == Min(item.width, rd.left - 1)
         IN  [rd EXCEPT !.left = @ - 1 - n, !.out = Append(@, SubSeq(item.value, 1, n))]

\* The reads of a decoder, in order, up to the first that raises.
RECURSIVE ReadItems(_, _)
ReadItems(rd, items) ==
    IF Len(items) = 0 \/ rd.raised THEN rd
    ELSE ReadItems(IF Head(items).kind = "fixed" THEN ReadFixed(rd, Head(items))
                   ELSE ReadString(rd, Head(items)),
                   Tail(items))

\* _read_lap_info: lap time, three splits, two flag bytes
LapInfoItems(lap) ==
    <<Fixed(4, lap), Fixed(4, 0), Fixed(4, 0), Fixed(4, 0), Fixed(1, 0), Fixed(1, 1)>>

\* The fields _process_entry_list_car reads, in order
DriverItems(driver) ==
    <<String(driver.first_name), String(driver.last_name), String(driver.short_name),
      Fixed(1, driver.category), Fixed(2, driver.nationality)>>

RECURSIVE DriversItems(_)
DriversItems(drivers) ==
    IF Len(drivers) = 0 THEN <<>>
    ELSE DriverItems(Head(drivers)) \o DriversItems(Tail(drivers))

EntryListCarItems(msg) ==
    <<Fixed(2, msg.car_index), Fixed(1, msg.car_model_type), String(msg.team_name),
      Fixed(4, msg.race_number), Fixed(1, msg.cup_category),
      Fixed(1, msg.current_driver_index), Fixed(2, msg.nationality),
      Fixed(1, Len(msg.drivers))>> \o DriversItems(msg.drivers)

\* The fields _process_realtime_car_update reads, in order.  The fields that
\* no modelled method reads afterwards (driver count, gear, world position,
\* yaw, speed, cup and track position, spline position) keep their widths and
\* carry 0.
RealtimeCarUpdateItems(msg) ==
    <<Fixed(2, msg.car_index), Fixed(2, msg.driver_index), Fixed(1, 0), Fixed(1, 0),
      Fixed(4, 0), Fixed(4, 0), Fixed(4, 0), Fixed(1, msg.car_location), Fixed(2, 0),
      Fixed(2, msg.position), Fixed(2, 0), Fixed(2, 0), Fixed(4, 0),
      Fixed(2, msg.laps), Fixed(4, msg.delta)>>
    \o LapInfoItems(msg.best_session_lap) \o LapInfoItems(msg.last_lap)
    \o LapInfoItems(msg.current_lap)

\* The fields _process_realtime_update reads, in order; the two replay times
\* are on the wire only when is_replay_playing is set.
RealtimeUpdateItems(msg) ==
    <<Fixed(2, msg.event_index), Fixed(2, msg.session_index), Fixed(1, msg.session_type),
      Fixed(1, msg.phase), Fixed(4, msg.session_time), Fixed(4, msg.session_end_time),
      Fixed(4, msg.focused_car_index), String(msg.active_camera_set),
      String(msg.active_camera), String(msg.current_hud_page),
      Fixed(1, msg.is_replay_playing)>>
    \o (IF msg.is_replay_playing # 0 THEN <<Fixed(4, 0), Fixed(4, 0)>> ELSE <<>>)
    \o <<Fixed(4, 0), Fixed(1, 0), Fixed(1, 0), Fixed(1, 0), Fixed(1, 0), Fixed(1, 0)>>
    \o LapInfoItems(msg.best_session_lap)

RECURSIVE StringItems(_)
StringItems(strings) ==
    IF Len(strings) = 0 THEN <<>> ELSE <<String(Head(strings))>> \o StringItems(Tail(strings))

\* The fields _process_track_data reads, in order
TrackDataItems(msg) ==
    <<Fixed(4, msg.connection_id), String(msg.track_name), Fixed(4, msg.track_id),
      Fixed(4, msg.track_meters), Fixed(1, Len(msg.camera_sets))>>
    \o StringItems(msg.camera_sets)
    \o <<Fixed(1, Len(msg.hud_pages))>> \o StringItems(msg.hud_pages)

\* The fields _process_registration_result reads, in order
RegistrationResultItems(msg) ==
    <<Fixed(4, msg.connection_id), Fixed(1, msg.success), Fixed(1, msg.is_readonly),
      String(msg.error_msg)>>

\* The fields _process_entry_list reads, in order
EntryListItems(msg) ==
    <<Fixed(4, msg.connection_id), Fixed(2, Len(msg.car_indices))>>
    \o [i \in 1..Len(msg.car_indices) |-> Fixed(2, msg.car_indices[i])]

\* The layout of a datagram's message by its tag; a BroadcastingEvent and a
\* datagram of unknown tag are not read.
Items(data) ==
    CASE data.tag = REGISTRATION_RESULT -> RegistrationResultItems(data.msg)
      [] data.tag = REALTIME_UPDATE -> RealtimeUpdateItems(data.msg)
      [] data.tag = REALTIME_CAR_UPDATE -> RealtimeCarUpdateItems(data.msg)
      [] data.tag = ENTRY_LIST -> EntryListItems(data.msg)
      [] data.tag = TRACK_DATA -> TrackDataItems(data.msg)
      [] data.tag = ENTRY_LIST_CAR -> EntryListCarItems(data.msg)
      [] OTHER -> <<>>

\* The length of the whole datagram that carries data's message.
FullSize(data) == 1 + PayloadSize(Items(data))

\* A datagram that arrived whole, and the same datagram cut to size bytes.
Whole(tag, msg) ==
    LET data == [tag |-> tag, msg |-> msg, size |-> 0]
    IN  [data EXCEPT !.size = FullSize(data)]

CutTo(data, size) == [data EXCEPT !.size = size]

\* The sizes a datagram is cut to: the tag byte alone, one byte short of
\* whole, and every cut just before or inside a string (a cut inside a fixed
\* field is read like the cut just before it).
CutSizes(data) ==
    LET items == Items(data)
        start(k) == 1 + PayloadSize(SubSeq(items, 1, k - 1))
        in_string == {n \in 1..FullSize(data) :
                         \E k \in 1..Len(items) :
                            /\ items[k].kind = "string"
                            /\ n >= start(k)
                            /\ n < start(k) + WireSize(items[k])}
    IN  {n \in {1, FullSize(data) - 1} \cup in_string : n >= 1 /\ n < FullSize(data)}

\* The datagram of no bytes.
EmptyDatagram == [tag |-> 0, msg |-> [type |-> 0], size |-> 0]

\* Car indices, race positions and driver indices of the cars on the wire.
CarIndices == {0, 1}
Positions == {1, 2}
DriverIndices == {0, 1}

Driver(first_name, last_name, short_name) ==
    [first_name |-> first_name, last_name |-> last_name, short_name |-> short_name,
     category |-> 0, nationality |-> 0]

\* The drivers of an entry: none, or one driver with the combinations of
\* empty and non-empty names that get_standings tells apart (driver index 1
\* is then outside the list).
DriverLists ==
    {<<>>,
     <<Driver(<<"A">>, <<"B">>, <<"S">>)>>,
     <<Driver(<<"A">>, <<>>, <<"S">>)>>,
     <<Driver(<<>>, <<"B">>, <<>>)>>,
     <<Driver(<<>>, <<>>, <<"S">>)>>,
     <<Driver(<<>>, <<>>, <<>>)>>}

EntryListCarMessages ==
    [car_index : CarIndices, car_model_type : {0}, team_name : {<<"T">>},
     race_number : {7}, cup_category : {0}, current_driver_index : {0},
     nationality : {0}, drivers : DriverLists]

RealtimeCarUpdateMessages ==
    [car_index : CarIndices, driver_index : DriverIndices, car_location : {1},
     position : Positions, laps : {5}, delta : {0}, best_session_lap : {0},
     last_lap : {0}, current_lap : {0}]

\* The datagrams of the standings: every entry and every realtime update of a
\* car, arrived whole.
CarDatagrams ==
    {Whole(ENTRY_LIST_CAR, msg) : msg \in EntryListCarMessages}
    \cup {Whole(REALTIME_CAR_UPDATE, msg) : msg \in RealtimeCarUpdateMessages}

\* One message of every kind (two session updates, with and without the
\* replay times), and a datagram whose tag is no message type.

SampleDatagrams ==
    {Whole(REGISTRATION_RESULT,
           [connection_id |-> 1, success |-> 0, is_readonly |-> 0, error_msg |-> <<"n", "o">>]),
     Whole(REALTIME_UPDATE,
           [event_index |-> 0, session_index |-> 0, session_type |-> 3, phase |-> 5,
            session_time |-> 60, session_end_time |-> 600, focused_car_index |-> 0,
            active_camera_set |-> <<"c">>, active_camera |-> <<"k">>,
            current_hud_page |-> <<"h">>, is_replay_playing |-> 0,
            best_session_lap |-> 90]),
     Whole(REALTIME_UPDATE,
           [event_index |-> 0, session_index |-> 0, session_type |-> 3, phase |-> 5,
            session_time |-> 70, session_end_time |-> 600, focused_car_index |-> 0,
            active_camera_set |-> <<"c">>, active_camera |-> <<"k">>,
            current_hud_page |-> <<"h">>, is_replay_playing |-> 1,
            best_session_lap |-> 90]),
     Whole(REALTIME_CAR_UPDATE,
           [car_index |-> 0, driver_index |-> 0, car_location |-> 1, position |-> 1,
            laps |-> 5, delta |-> 0, best_session_lap |-> 0, last_lap |-> 0,
            current_lap |-> 0]),
     Whole(ENTRY_LIST, [connection_id |-> 1, car_indices |-> <<0, 1>>]),
     Whole(TRACK_DATA,
           [connection_id |-> 1, track_name |-> <<"S">>, track_id |-> 3,
            track_meters |-> 7004, camera_sets |-> <<<<"c">>>>,
            hud_pages |-> <<<<"h">>, <<"p", "q">>>>]),
     Whole(ENTRY_LIST_CAR,
           [car_index |-> 0, car_model_type |-> 0, team_name |-> <<"T">>,
            race_number |-> 7, cup_category |-> 0, current_driver_index |-> 0,
            nationality |-> 0, drivers |-> <<Driver(<<"A">>, <<"B">>, <<"S">>)>>]),
     Whole(BROADCASTING_EVENT, [type |-> 1]),
     Whole(99, [type |-> 0])}

\* Every sample datagram, whole and cut short, and the empty datagram.
ReceivedDatagrams ==
    SampleDatagrams \cup {EmptyDatagram}
    \cup UNION {{CutTo(data, size) : size \in CutSizes(data)} : data \in SampleDatagrams}

\* The RegistrationResult of a server that accepts the client, with the
\* connection id it assigns, and of one that rejects it
RegistrationResults ==
    {Whole(REGISTRATION_RESULT,
           [connection_id |-> 7, success |-> 1, is_readonly |-> 0, error_msg |-> <<>>]),
     Whole(REGISTRATION_RESULT,
           [connection_id |-> -1, success |-> 0, is_readonly |-> 1,
            error_msg |-> <<"n", "o">>])}

\* The datagrams of a session over several connections: the registration
\* results, an EntryList that names car 0 alone and an empty one, and for
\* each of two cars its entry and a realtime update
SessionDatagrams ==
    RegistrationResults
    \cup {Whole(ENTRY_LIST, [connection_id |-> 7, car_indices |-> indices]) :
             indices \in {<<>>, <<0>>}}
    \cup {data \in CarDatagrams :
             IF data.tag = ENTRY_LIST_CAR
             THEN data.msg.drivers = <<Driver(<<"A">>, <<"B">>, <<"S">>)>>
             ELSE data.msg.driver_index = 0 /\ data.msg.position = data.msg.car_index + 1}

\* What the reads of a datagram's decoder return, for every datagram on the
\* wire (the reads depend on the datagram alone).
Decoded ==
    [data \in CarDatagrams \cup ReceivedDatagrams \cup SessionDatagrams |->
        ReadItems(Reader(data), Items(data))]

\* The client's dicts as one record, threaded through _process_message;
\* raised says that a decoder raised, which unwinds to _receive_loop.
ClientData == [entry_list |-> entry_list, realtime_data |-> realtime_data,
               session_info |-> session_info, track_data |-> track_data,
               raised |-> FALSE]

\* _process_registration_result that drops the entries when the server rejects
ProcessRegistrationResultResetting(c, data) ==
    LET rd == Decoded[data]
    IN  IF rd.raised THEN [c EXCEPT !.raised = TRUE]
        ELSE IF rd.out[2] = 0 THEN [c EXCEPT !.entry_list = EmptyDict]
        ELSE c

\* _process_registration_result: decodes and prints
ProcessRegistrationResult(c, data) ==
    LET rd == Decoded[data]
    IN  [c EXCEPT !.raised = rd.raised]

\* _process_realtime_update: session_info is assigned after the last read.
\* The weather fields are decoded and stored the same way and are left out.
ProcessRealtimeUpdate(c, data) ==
    LET rd == Decoded[data]
        v == rd.out
    IN  IF rd.raised THEN [c EXCEPT !.raised = TRUE]
        ELSE [c EXCEPT !.session_info =
                 <<[event_index |-> v[1], session_index |-> v[2], session_type |-> v[3],
                    phase |-> v[4], session_time |-> v[5], session_end_time |-> v[6],
                    focused_car_index |-> v[7],
                    best_session_lap |-> v[Len(v) - 5]]>>]

\* _process_realtime_car_update: realtime_data[car_index] is assigned after
\* the last read.  The value keeps the keys get_standings reads.
ProcessRealtimeCarUpdate(c, data) ==
    LET rd == Decoded[data]
        v == rd.out
    IN  IF rd.raised THEN [c EXCEPT !.raised = TRUE]
        ELSE [c EXCEPT !.realtime_data =
                 DictSet(@, v[1], [driver_index |-> v[2], car_location |-> v[8],
                                   position |-> v[10], laps |-> v[14], delta |-> v[15],
                                   best_session_lap |-> v[16], last_lap |-> v[22],
                                   current_lap |-> v[28]])]

\* _process_entry_list that keeps the entries of the cars the message names
ProcessEntryListPruning(c, data) ==
    LET rd == Decoded[data]
        named == {rd.out[i] : i \in 3..Len(rd.out)}
    IN  IF rd.raised THEN [c EXCEPT !.raised = TRUE]
        ELSE [c EXCEPT !.entry_list = SelectSeq(@, LAMBDA item : item[1] \in named)]

\* _process_entry_list: reads the indices and keeps nothing
ProcessEntryList(c, data) ==
    LET rd == Decoded[data]
    IN  [c EXCEPT !.raised = rd.raised]

\* The drivers decoded by the loop of _process_entry_list_car, five values each
RECURSIVE DecodeDrivers(_)
DecodeDrivers(v) ==
    IF Len(v) < 5 THEN <<>>
    ELSE <<[first_name |-> v[1], last_name |-> v[2], short_name |-> v[3],
            category |-> v[4], nationality |-> v[5]]>>
         \o DecodeDrivers(SubSeq(v, 6, Len(v)))

\* _process_entry_list_car: entry_list[car_index] is assigned after the last read
ProcessEntryListCar(c, data) ==
    LET rd == Decoded[data]
        v == rd.out
    IN  IF rd.raised THEN [c EXCEPT !.raised = TRUE]
        ELSE [c EXCEPT !.entry_list =
                 DictSet(@, v[1], [car_model_type |-> v[2], team_name |-> v[3],
                                   race_number |-> v[4], cup_category |-> v[5],
                                   current_driver_index |-> v[6], nationality |-> v[7],
                                   drivers |-> DecodeDrivers(SubSeq(v, 9, Len(v)))])]

\* _process_track_data: track_data is assigned after the last read
ProcessTrackData(c, data) ==
    LET rd == Decoded[data]
        v == rd.out
    IN  IF rd.raised THEN [c EXCEPT !.raised = TRUE]
        ELSE LET camera_set_count == v[5]
             IN  [c EXCEPT !.track_data =
                     <<[track_name |-> v[2], track_id |-> v[3], track_meters |-> v[4],
                        camera_sets |-> SubSeq(v, 6, 5 + camera_set_count),
                        hud_pages |-> SubSeq(v, 7 + camera_set_count, Len(v))]>>]

\* _process_message
ProcessMessage(c, data) ==
    IF data.size < 1 THEN c
    ELSE CASE data.tag = REGISTRATION_RESULT -> ProcessRegistrationResult(c, data)
           [] data.tag = REALTIME_UPDATE -> ProcessRealtimeUpdate(c, data)
           [] data.tag = REALTIME_CAR_UPDATE -> ProcessRealtimeCarUpdate(c, data)
           [] data.tag = ENTRY_LIST -> ProcessEntryList(c, data)
           [] data.tag = ENTRY_LIST_CAR -> ProcessEntryListCar(c, data)
           [] data.tag = TRACK_DATA -> ProcessTrackData(c, data)
           [] OTHER -> c

\* get_standings, the name of the current driver: a driver dict is never
\* empty, and it always has the key 'short_name', so .get's default is not used
DriverName(entry, realtime) ==
    IF realtime.driver_index < Len(entry.drivers)
    THEN LET current_driver == entry.drivers[realtime.driver_index + 1]
             driver_name == Strip(current_driver.first_name \o <<" ">>
                                  \o current_driver.last_name)
         IN  IF Len(driver_name) = 0 THEN current_driver.short_name ELSE driver_name
    ELSE Unknown

\* get_standings, the row of one car
StandingsRow(car_index, entry, realtime) ==
    [position |-> realtime.position, car_index |-> car_index,
     car_number |-> entry.race_number, driver_name |-> DriverName(entry, realtime),
     team_name |-> entry.team_name, car_model |-> entry.car_model_type,
     laps |-> realtime.laps, delta |-> realtime.delta,
     best_session_lap |-> realtime.best_session_lap, last_lap |-> realtime.last_lap,
     current_lap |-> realtime.current_lap, location |-> realtime.car_location]

\* The loop that gives a car without an entry a row of its own
RECURSIVE StandingsRowsOfAllCars(_, _)
StandingsRowsOfAllCars(realtime_items, entries) ==
    IF Len(realtime_items) = 0 THEN <<>>
    ELSE LET car_index == Head(realtime_items)[1]
             rest == StandingsRowsOfAllCars(Tail(realtime_items), entries)
             no_entry == [car_model_type |-> 0, team_name |-> <<>>, race_number |-> 0,
                          drivers |-> <<>>]
         IN  <<StandingsRow(car_index,
                            IF car_index \in DictKeys(entries)
                            THEN DictGet(entries, car_index) ELSE no_entry,
                            Head(realtime_items)[2])>> \o rest

\* get_standings, the loop over realtime_data.items(): cars without an entry
\* are skipped
RECURSIVE StandingsRows(_, _)
StandingsRows(realtime_items, entries) ==
    IF Len(realtime_items) = 0 THEN <<>>
    ELSE LET car_index == Head(realtime_items)[1]
             rest == StandingsRows(Tail(realtime_items), entries)
         IN  IF car_index \notin DictKeys(entries) THEN rest
             ELSE <<StandingsRow(car_index, DictGet(entries, car_index),
                                 Head(realtime_items)[2])>> \o rest

\* The rows left in the order of the loop
Unsorted(rows) == rows

\* list.sort(key=position) is stable: a row goes after the rows of the same position
RECURSIVE InsertByPosition(_, _)
InsertByPosition(sorted, row) ==
    IF Len(sorted) = 0 THEN <<row>>
    ELSE IF Head(sorted).position <= row.position
    THEN <<Head(sorted)>> \o InsertByPosition(Tail(sorted), row)
    ELSE <<row>> \o sorted

RECURSIVE SortByPosition(_)
SortByPosition(rows) ==
    IF Len(rows) = 0 THEN <<>>
    ELSE InsertByPosition(SortByPosition(SubSeq(rows, 1, Len(rows) - 1)), rows[Len(rows)])

\* get_standings, as a function of the two dicts it reads
Standings(entries, realtime_items) == SortByPosition(StandingsRows(realtime_items, entries))

\* get_standings
GetStandings == Standings(entry_list, realtime_data)

\* ------------------------------------------------ the Register command
BROADCASTING_PROTOCOL_VERSION == 4

\* n times the character c
Text(n, c) == [i \in 1..n |-> c]

\* str.encode('utf-8'), for code points below 2048: one byte below 128, two
\* bytes from there on.  The string is encoded half by half.
RECURSIVE Utf8Encode(_)
Utf8Encode(s) ==
    IF Len(s) = 0 THEN <<>>
    ELSE IF Len(s) = 1
    THEN (IF s[1] < 128 THEN <<s[1]>> ELSE <<192 + (s[1] \div 64), 128 + (s[1] % 64)>>)
    ELSE Utf8Encode(SubSeq(s, 1, Len(s) \div 2))
         \o Utf8Encode(SubSeq(s, Len(s) \div 2 + 1, Len(s)))

\* Where to cut well-formed UTF-8 near its middle: not before a second byte
\* (128..191) of a character
Utf8Cut(bytes) ==
    IF bytes[Len(bytes) \div 2 + 1] \in 128..191
    THEN Len(bytes) \div 2 + 1 ELSE Len(bytes) \div 2

\* bytes.decode('utf-8'), of what Utf8Encode makes, decoded half by half
RECURSIVE Utf8Decode(_)
Utf8Decode(bytes) ==
    IF Len(bytes) = 0 THEN <<>>
    ELSE IF Len(bytes) = 1 THEN <<bytes[1]>>
    ELSE IF Len(bytes) = 2 /\ bytes[1] >= 192
    THEN <<(bytes[1] - 192) * 64 + (bytes[2] - 128)>>
    ELSE Utf8Decode(SubSeq(bytes, 1, Utf8Cut(bytes)))
         \o Utf8Decode(SubSeq(bytes, Utf8Cut(bytes) + 1, Len(bytes)))

\* struct.pack('B', value) raises struct.error unless 0 <= value <= 255
FitsByte(value) == value \in 0..255

\* struct.pack('i', value): the four bytes of the two's complement of value,
\* least significant first
PackInt(value) ==
    <<value % 256, (value \div 256) % 256, (value \div 65536) % 256,
      (value \div 16777216) % 256>>

\* struct.unpack('i', bytes)
UnpackInt(bytes) ==
    bytes[1] + 256 * bytes[2] + 65536 * bytes[3]
    + 16777216 * (IF bytes[4] >= 128 THEN bytes[4] - 256 ELSE bytes[4])

\* The buffer of a Register command whose strings take the given bytes
RegisterBuffer(name_bytes, pwd_bytes, update_interval_ms, cmd_pwd_bytes) ==
    <<REGISTER_COMMAND_APPLICATION, BROADCASTING_PROTOCOL_VERSION>>
    \o <<Len(name_bytes)>> \o name_bytes
    \o <<Len(pwd_bytes)>> \o pwd_bytes
    \o PackInt(update_interval_ms)
    \o <<Len(cmd_pwd_bytes)>> \o cmd_pwd_bytes

\* _send_register_command with the length bytes counting characters
SendRegisterCommandCountingCharacters(args) ==
    IF \A s \in {args.display_name, args.password, args.command_password} : FitsByte(Len(s))
    THEN [called |-> TRUE, raised |-> FALSE,
          bytes |-> <<REGISTER_COMMAND_APPLICATION, BROADCASTING_PROTOCOL_VERSION>>
                    \o <<Len(args.display_name)>> \o Utf8Encode(args.display_name)
                    \o <<Len(args.password)>> \o Utf8Encode(args.password)
                    \o PackInt(args.update_interval_ms)
                    \o <<Len(args.command_password)>> \o Utf8Encode(args.command_password)]
    ELSE [called |-> TRUE, raised |-> TRUE, bytes |-> <<>>]

\* _send_register_command: what it hands to sendto, unless packing the length
\* of a string raises
SendRegisterCommand(args) ==
    LET name_bytes == Utf8Encode(args.display_name)
        pwd_bytes == Utf8Encode(args.password)
        cmd_pwd_bytes == Utf8Encode(args.command_password)
    IN  IF \A bytes \in {name_bytes, pwd_bytes, cmd_pwd_bytes} : FitsByte(Len(bytes))
        THEN [called |-> TRUE, raised |-> FALSE,
              bytes |-> RegisterBuffer(name_bytes, pwd_bytes, args.update_interval_ms,
                                       cmd_pwd_bytes)]
        ELSE [called |-> TRUE, raised |-> TRUE, bytes |-> <<>>]

\* The receiver reading a string at a position of the buffer: a length byte,
\* then that many bytes
StringAt(bytes, at) == Utf8Decode(SubSeq(bytes, at + 1, at + bytes[at]))

\* The receiver decoding a Register command field by field; rest is the
\* number of bytes left over
DecodeRegister(bytes) ==
    LET pwd_at == 4 + bytes[3]
        interval_at == pwd_at + 1 + bytes[pwd_at]
        cmd_pwd_at == interval_at + 4
    IN  [tag |-> bytes[1],
         version |-> bytes[2],
         display_name |-> StringAt(bytes, 3),
         password |-> StringAt(bytes, pwd_at),
         update_interval_ms |-> UnpackInt(SubSeq(bytes, interval_at, interval_at + 3)),
         command_password |-> StringAt(bytes, cmd_pwd_at),
         rest |-> Len(bytes) - (cmd_pwd_at + bytes[cmd_pwd_at])]

\* The arguments connect() passes by default: "ACCRecorder", "asd", 250, ""
DefaultRegisterArgs ==
    [display_name |-> <<65, 67, 67, 82, 101, 99, 111, 114, 100, 101, 114>>,
     password |-> <<97, 115, 100>>,
     update_interval_ms |-> 250,
     command_password |-> <<>>]

\* The datagram connect() registers with
RegisterDatagram == SendRegisterCommand(DefaultRegisterArgs).bytes

\* A command that carries the connection id of the last RegistrationResult
CommandWithServerId(message_type, server) ==
    <<message_type>> \o PackInt(IF server = None THEN 1 ELSE server[1])

\* _send_unregister_command, _request_entry_list, _request_track_data: the
\* tag byte and pack('i', 1).  server is the connection id the last
\* RegistrationResult carried, which the client does not keep.
Command(message_type, server) == <<message_type>> \o PackInt(1)

\* What sendto is handed for the datagrams of the given tags, in order
Datagrams(tags, server) ==
    [i \in 1..Len(tags) |->
        IF tags[i] = REGISTER_COMMAND_APPLICATION THEN RegisterDatagram
        ELSE Command(tags[i], server)]

\* ------------------------------------------------- connect and disconnect
\* The steps of connect() that can raise ("none": it returns True).
ConnectFailures == {"socket", "register", "request_entry_list", "request_track_data"}

\* connect() that requests the track data before the entry list
ConnectSendsTrackDataFirst(fail) ==
    CASE fail \in {"socket", "register"} -> <<>>
      [] fail = "request_entry_list" -> <<REGISTER_COMMAND_APPLICATION>>
      [] fail = "request_track_data" -> <<REGISTER_COMMAND_APPLICATION, REQUEST_TRACK_DATA>>
      [] OTHER -> <<REGISTER_COMMAND_APPLICATION, REQUEST_TRACK_DATA, REQUEST_ENTRY_LIST>>

\* The datagrams connect() has sent when it fails at a step, or does not fail
ConnectSends(fail) ==
    CASE fail \in {"socket", "register"} -> <<>>
      [] fail = "request_entry_list" -> <<REGISTER_COMMAND_APPLICATION>>
      [] fail = "request_track_data" -> <<REGISTER_COMMAND_APPLICATION, REQUEST_ENTRY_LIST>>
      [] OTHER -> <<REGISTER_COMMAND_APPLICATION, REQUEST_ENTRY_LIST, REQUEST_TRACK_DATA>>

\* The statements of connect()'s try block in order
ConnectStatements ==
    <<"socket", "register", "sleep", "request_entry_list", "request_track_data",
      "running_true", "start_thread", "connected_true">>

\* The statements connect() has completed when it fails at one, or does not fail
ConnectSteps(fail) ==
    IF fail = "none" THEN ConnectStatements
    ELSE SubSeq(ConnectStatements, 1,
                (CHOOSE i \in DOMAIN ConnectStatements : ConnectStatements[i] = fail) - 1)

\* ACCBroadcastingClient.connect, at most max times.  A new socket replaces
\* the one held before, which is not closed; the receive thread is a new one.
ConnectWithin(max) ==
    /\ n_connects < max
    /\ n_connects' = n_connects + 1
    /\ \E fail \in ConnectFailures \cup {"none"} :
          /\ socket' = IF fail = "socket" THEN socket ELSE "open"
          /\ sent' = sent \o ConnectSends(fail)
          /\ wire' = wire \o Datagrams(ConnectSends(fail), registered)
          /\ IF fail = "none"
             THEN /\ running' = TRUE
                  /\ receive_thread' = Some(n_connects + 1)
                  /\ threads' = threads \cup {n_connects + 1}
                  /\ connected' = TRUE
             ELSE /\ connected' = FALSE
                  /\ UNCHANGED <<running, receive_thread, threads>>
          /\ cop' = [name |-> "connect", steps |-> ConnectSteps(fail), raised |-> fail # "none"]
    /\ received' = None
    /\ added' = None
    /\ UNCHANGED <<entry_list, realtime_data, session_info, track_data, registered>>
    /\ UNCHANGED exceptClient

\* ACCBroadcastingClient.connect
Connect == ConnectWithin(MaxConnects)

\* ACCBroadcastingClient.connect, in a run of connect() and disconnect() calls
LifecycleConnect == ConnectWithin(MaxLifecycleConnects)

\* ACCBroadcastingClient.connect, in a session over several connections
SessionConnect == ConnectWithin(MaxSessionConnects)

\* ACCBroadcastingClient.disconnect.  sendto raises on a closed socket and may
\* raise on an open one; the bare except then skips the rest of the try block.
\* join(timeout=2.0) returns when the thread has left its loop or after 2 s.
Disconnect ==
    /\ IF socket = "none"
       THEN /\ cop' = [name |-> "disconnect", steps |-> <<>>, raised |-> FALSE]
            /\ UNCHANGED <<socket, running, threads, sent, wire>>
       ELSE \E send_raises \in (IF socket = "open" THEN BOOLEAN ELSE {TRUE}) :
               IF send_raises
               THEN /\ cop' = [name |-> "disconnect", steps |-> <<"send_unregister">>,
                               raised |-> TRUE]
                    /\ UNCHANGED <<socket, running, threads, sent, wire>>
               ELSE /\ sent' = Append(sent, UNREGISTER_COMMAND_APPLICATION)
                    /\ wire' = Append(wire, Command(UNREGISTER_COMMAND_APPLICATION, registered))
                    /\ running' = FALSE
                    /\ \E joined \in BOOLEAN :
                          threads' = IF receive_thread # None /\ joined
                                     THEN threads \ {receive_thread[1]} ELSE threads
                    /\ socket' = "closed"
                    /\ cop' = [name |-> "disconnect",
                               steps |-> <<"send_unregister", "running_false">>
                                         \o (IF receive_thread # None THEN <<"join">> ELSE <<>>)
                                         \o <<"close">>,
                               raised |-> FALSE]
    /\ connected' = FALSE
    /\ received' = None
    /\ UNCHANGED <<receive_thread, n_connects, registered>>
    /\ added' = None
    /\ UNCHANGED <<entry_list, realtime_data, session_info, track_data>>
    /\ UNCHANGED exceptClient

\* The connection id a datagram carries when it is a RegistrationResult whose
\* first field _process_registration_result could read; before otherwise
ServerConnectionId(data, before) ==
    IF data.size >= 1 /\ data.tag = REGISTRATION_RESULT /\ Len(Decoded[data].out) >= 1
    THEN Some(Decoded[data].out[1])
    ELSE before

\* The key a datagram added to a dict, as <<tag, car index>>
NewKeys(c, tag) ==
    LET new == (DictKeys(c.entry_list) \ DictKeys(entry_list))
               \cup (DictKeys(c.realtime_data) \ DictKeys(realtime_data))
    IN  IF new = {} THEN None ELSE Some(<<tag, CHOOSE car_index \in new : TRUE>>)

\* _receive_loop, one iteration in which recvfrom returns a datagram: what
\* _process_message raises is caught and the loop goes on.
ReceiveData(datagrams) ==
    /\ threads # {}
    /\ running
    /\ socket = "open"
    /\ \E datagram \in datagrams :
          \E c \in {ProcessMessage(ClientData, datagram)} :
              /\ entry_list' = c.entry_list
              /\ realtime_data' = c.realtime_data
              /\ session_info' = c.session_info
              /\ track_data' = c.track_data
              /\ added' = NewKeys(c, datagram.tag)
              /\ received' = Some(datagram)
              /\ registered' = ServerConnectionId(datagram, registered)
              /\ cop' = [name |-> "receive", steps |-> <<>>, raised |-> c.raised]
    /\ UNCHANGED <<socket, connected, running, receive_thread, threads, sent, n_connects, wire>>

\* An iteration of the receive loop with no other thread at work
ReceiveFrom(datagrams) == ReceiveData(datagrams) /\ UNCHANGED exceptClient

\* The receive loop fed the datagrams of the standings
ReceiveCarData == ReceiveFrom(CarDatagrams)

\* The receive loop fed datagrams of every kind, whole and cut short
Receive == ReceiveFrom(ReceivedDatagrams)

\* The receive loop fed the datagrams of a session
SessionReceive == ReceiveFrom(SessionDatagrams)

\* _receive_loop, one iteration in which recvfrom times out after 1 s
ReceiveTimeout ==
    /\ threads # {}
    /\ running
    /\ socket = "open"
    /\ cop' = [name |-> "timeout", steps |-> <<>>, raised |-> FALSE]
    /\ received' = None
    /\ UNCHANGED <<socket, connected, running, receive_thread, threads, sent, n_connects,
                   wire, registered>>
    /\ added' = None
    /\ UNCHANGED <<entry_list, realtime_data, session_info, track_data>>
    /\ UNCHANGED exceptClient

\* _receive_loop, a thread finds running false and leaves the loop
LoopExit ==
    /\ ~running
    /\ \E thread \in threads : threads' = threads \ {thread}
    /\ cop' = [name |-> "exit", steps |-> <<>>, raised |-> FALSE]
    /\ received' = None
    /\ UNCHANGED <<socket, connected, running, receive_thread, sent, n_connects,
                   wire, registered>>
    /\ added' = None
    /\ UNCHANGED <<entry_list, realtime_data, session_info, track_data>>
    /\ UNCHANGED exceptClient

\* ACCBroadcastingClient.__init__
ClientInit ==
    /\ socket = "none"
    /\ connected = FALSE
    /\ running = FALSE
    /\ receive_thread = None
    /\ threads = {}
    /\ sent = <<>>
    /\ wire = <<>>
    /\ registered = None
    /\ entry_list = EmptyDict
    /\ realtime_data = EmptyDict
    /\ session_info = EmptyDict
    /\ track_data = EmptyDict
    /\ received = None
    /\ cop = [name |-> "init", steps |-> <<>>, raised |-> FALSE]
    /\ added = None
    /\ n_connects = 0

\* The client after __init__ and a connect() that returned True
ClientConnected ==
    /\ socket = "open"
    /\ connected = TRUE
    /\ running = TRUE
    /\ receive_thread = Some(1)
    /\ threads = {1}
    /\ sent = ConnectSends("none")
    /\ wire = Datagrams(ConnectSends("none"), None)
    /\ registered = None
    /\ entry_list = EmptyDict
    /\ realtime_data = EmptyDict
    /\ session_info = EmptyDict
    /\ track_data = EmptyDict
    /\ received = None
    /\ cop = [name |-> "connect", steps |-> ConnectSteps("none"), raised |-> FALSE]
    /\ added = None
    /\ n_connects = 1

\* -------------------------------------- get_standings on a caller thread
\* Whole datagrams of two cars, each with one driver
RaceDatagrams ==
    {data \in CarDatagrams :
        IF data.tag = ENTRY_LIST_CAR
        THEN data.msg.drivers = <<Driver(<<"A">>, <<"B">>, <<"S">>)>>
        ELSE data.msg.driver_index = 0}

\* next() of a dict iterator that does not look at the size of the dict
IterNextUnchecked(used, pos, items) ==
    IF pos >= Len(items) THEN "stop" ELSE "item"

\* next() of the iterator of realtime_data.items(): RuntimeError when the
\* dict has not the size it had when the iterator was made, StopIteration
\* after the last item, the item at its position otherwise
IterNext(used, pos, items) ==
    IF Len(items) # used THEN "raise"
    ELSE IF pos >= Len(items) THEN "stop" ELSE "item"

\* No get_standings() call made
NoCall ==
    [active |-> FALSE, calls |-> 0, pos |-> 0, used |-> 0, standings |-> <<>>, result |-> None,
     overlaps |-> 0, seen |-> {}, inserted |-> FALSE]

\* get_standings up to the for statement: the list is empty and the
\* iterator made
GetStandingsCall ==
    /\ ~call.active
    /\ call.calls < MaxCalls
    /\ call' = [active |-> TRUE, calls |-> call.calls + 1, pos |-> 0,
                used |-> Len(realtime_data), standings |-> <<>>, result |-> None,
                overlaps |-> 0, seen |-> {GetStandings}, inserted |-> FALSE]
    /\ UNCHANGED <<clientVars, exceptClientAndCaller>>

\* get_standings, one round of the for statement: next() of the iterator,
\* then the body of the loop, or the sort and the return after the last item
GetStandingsIterate ==
    /\ call.active
    /\ \E step \in {IterNext(call.used, call.pos, realtime_data)} :
          call' =
            CASE step = "raise" ->
                   [call EXCEPT !.active = FALSE,
                                !.result = Some([raised |-> TRUE, standings |-> <<>>])]
              [] step = "stop" ->
                   [call EXCEPT !.active = FALSE,
                                !.result = Some([raised |-> FALSE,
                                                 standings |-> SortByPosition(call.standings)])]
              [] OTHER ->
                   [call EXCEPT
                      !.pos = @ + 1,
                      !.standings =
                          IF realtime_data[call.pos + 1][1] \in DictKeys(entry_list)
                          THEN Append(@, StandingsRow(realtime_data[call.pos + 1][1],
                                                      DictGet(entry_list,
                                                              realtime_data[call.pos + 1][1]),
                                                      realtime_data[call.pos + 1][2]))
                          ELSE @]
    /\ UNCHANGED <<clientVars, exceptClientAndCaller>>

\* An iteration of the receive loop, which a get_standings() call under way
\* does not hold back
ReceiveDuringCall ==
    /\ call.active => call.overlaps < MaxOverlaps
    /\ ReceiveData(RaceDatagrams)
    /\ call' = IF ~call.active THEN call
               ELSE [call EXCEPT !.overlaps = @ + 1,
                                 !.seen = @ \cup {Standings(entry_list', realtime_data')},
                                 !.inserted = @ \/ Len(realtime_data') # Len(realtime_data)]
    /\ UNCHANGED exceptClientAndCaller

CallerInit == call = NoCall

\* ---------------------------------------------------- the telemetry reader
\* The three region handles in the order connect() opens them and
\* disconnect() closes them
Regions == <<"physics", "graphics", "static">>

\* The ACCTelemetry object: its handles in the order of Regions, its flag
Telemetry == [handles |-> <<physics_handle, graphics_handle, static_handle>>,
              connected |-> telemetry_connected]

\* The outcomes of the mmap.mmap calls of one connect(): the region whose
\* mapping raises, "none" when all three are mapped
OpenFailures == {"physics", "graphics", "static", "none"}

\* The assignments of connect() that precede the mmap.mmap call that raises:
\* a handle assigned before it holds a new mapping, the others keep what they held
OpenRegions(handles, fail) ==
    [i \in 1..3 |->
        IF \E j \in 1..i : Regions[j] = fail THEN handles[i] ELSE "open"]

\* connect() that re-opens the regions also when already connected
TelemetryConnectedReopens(t, fail) ==
    [handles |-> OpenRegions(t.handles, fail),
     connected |-> fail = "none",
     raised |-> FALSE,
     result |-> fail = "none",
     failed |-> fail]

\* ACCTelemetry.connect: the reader after the call, what the call returned,
\* and the region whose mapping failed in it ("none" when none did, or when no
\* region was mapped)
TelemetryConnected(t, fail) ==
    IF t.connected
    THEN [handles |-> t.handles, connected |-> TRUE, raised |-> FALSE, result |-> TRUE,
          failed |-> "none"]
    ELSE [handles |-> OpenRegions(t.handles, fail),
          connected |-> fail = "none",
          raised |-> FALSE,
          result |-> fail = "none",
          failed |-> fail]

\* ACCTelemetry.disconnect from the i-th handle on.  `if handle:` is False for
\* None, True for an open mapping (its length, 4096) and raises ValueError for
\* a closed one, whose length cannot be taken; close() is then not reached,
\* nor is the assignment of connected.
RECURSIVE CloseRegions(_, _)
CloseRegions(t, i) ==
    IF i > 3
    THEN [handles |-> t.handles, connected |-> FALSE, raised |-> FALSE, result |-> FALSE,
          failed |-> "none"]
    ELSE IF t.handles[i] = "closed"
    THEN [handles |-> t.handles, connected |-> t.connected, raised |-> TRUE, result |-> FALSE,
          failed |-> "none"]
    ELSE IF t.handles[i] = "open"
    THEN CloseRegions([t EXCEPT !.handles[i] = "closed"], i + 1)
    ELSE CloseRegions(t, i + 1)

\* ACCTelemetry.disconnect
TelemetryDisconnected(t) == CloseRegions(t, 1)

\* The fields of the regions in the order the get_ calls decode them:
\* struct.unpack of a 4-byte slice, decode of a slice holding a wide string,
\* and bytes skipped by adding to the offset
Unpack == [kind |-> "unpack", width |-> 4]
Slice(width) == [kind |-> "slice", width |-> width]
Skip(width) == [kind |-> "skip", width |-> width]
Times(n, field) == [i \in 1..n |-> field]

\* The fields get_session_info decodes from the graphics region
GraphicsLayout ==
    Times(3, Unpack) \o Times(4, Slice(30)) \o Times(11, Unpack)
    \o <<Slice(66), Skip(4), Unpack>>

\* The fields get_player_telemetry decodes from the physics region
PhysicsLayout ==
    Times(34, Unpack) \o <<Skip(16)>> \o Times(4, Unpack) \o <<Skip(16)>>
    \o Times(4, Unpack) \o <<Skip(4)>> \o Times(4, Unpack)
    \o <<Skip(4), Skip(20), Skip(4), Skip(4), Unpack, Skip(8), Skip(4), Skip(8), Unpack,
         Skip(4)>>
    \o Times(3, Unpack) \o <<Skip(12), Skip(4), Skip(4), Skip(28)>> \o Times(5, Unpack)

\* The value of offset after the i-th field of a layout has been decoded
RECURSIVE EndOffset(_, _)
EndOffset(layout, i) == IF i = 0 THEN 0 ELSE EndOffset(layout, i - 1) + layout[i].width

\* The bytes the fields of a layout take, which is the least buffer that
\* holds them all
LayoutSize(layout) == EndOffset(layout, Len(layout))

\* The size of a mapped region, and of what handle.read(4096) returns
RegionSize == 4096

\* The decoding steps of a get_ call on a buffer of size bytes.  A slice
\* that reaches past the end of the buffer is shorter than asked for:
\* struct.unpack raises on a slice shorter than 4 bytes, decode() takes the
\* slice as it is.  partial says that the call returns a snapshot with a field
\* decoded from fewer bytes than its width.
Decode(layout, size) ==
    LET Short(i) == EndOffset(layout, i) > size
        raises == \E i \in DOMAIN layout : layout[i].kind = "unpack" /\ Short(i)
    IN  [raised |-> raises,
         partial |-> ~raises /\ \E i \in DOMAIN layout : layout[i].kind = "slice" /\ Short(i)]

\* The buffers handed to the decoding steps: the whole region, the least
\* buffer that holds every field, and buffers that end one byte early, inside
\* the first wide string, inside the first field, and at once
BufferSizes(layout) == {0, 3, 20, LayoutSize(layout) - 1, LayoutSize(layout), RegionSize}

\* What the decoding steps make of each buffer
GraphicsDecoded == [size \in BufferSizes(GraphicsLayout) |-> Decode(GraphicsLayout, size)]
PhysicsDecoded == [size \in BufferSizes(PhysicsLayout) |-> Decode(PhysicsLayout, size)]

\* get_session_info and get_player_telemetry: None when not connected, None
\* when a decoding step raised, the snapshot otherwise
GetInfo(t, decoded) ==
    IF ~t.connected \/ decoded.raised THEN None
    ELSE Some([partial |-> decoded.partial])

\* The reader's fields after a call, with the call's record
SetTelemetry(name, r) ==
    /\ Len(rlog) < MaxReaderCalls
    /\ physics_handle' = r.handles[1]
    /\ graphics_handle' = r.handles[2]
    /\ static_handle' = r.handles[3]
    /\ telemetry_connected' = r.connected
    /\ rop' = [name |-> name, raised |-> r.raised, result |-> r.result,
               failed |-> r.failed, info |-> None, size |-> None]
    /\ rlog' = Append(rlog, [name |-> name, raised |-> r.raised, result |-> r.result])
    /\ UNCHANGED <<is_monitoring, monitorFields, clock, op, snap, fired, raised,
                   streak_start, race_log, n_raised>>
    /\ UNCHANGED exceptMonitorAndReader

\* ACCTelemetry.connect
TelemetryConnect ==
    \E fail \in OpenFailures : SetTelemetry("connect", TelemetryConnected(Telemetry, fail))

\* ACCTelemetry.disconnect
TelemetryDisconnect == SetTelemetry("disconnect", TelemetryDisconnected(Telemetry))

\* A get_ call of the reader on a buffer of size bytes
GetFrom(name, decoded) ==
    /\ Len(rlog) < MaxReaderCalls
    /\ \E size \in DOMAIN decoded :
          /\ rop' = [name |-> name, raised |-> FALSE, result |-> FALSE,
                     failed |-> "none",
                     info |-> GetInfo(Telemetry, decoded[size]),
                     size |-> IF telemetry_connected THEN Some(size) ELSE None]
          /\ rlog' = Append(rlog, [name |-> name, raised |-> FALSE, result |-> FALSE])
    /\ UNCHANGED <<physics_handle, graphics_handle, static_handle>>
    /\ UNCHANGED exceptReader

\* ACCTelemetry.get_session_info
GetSessionInfo == GetFrom("get_session_info", GraphicsDecoded)

\* ACCTelemetry.get_player_telemetry
GetPlayerTelemetry == GetFrom("get_player_telemetry", PhysicsDecoded)

\* ACCTelemetry.__init__
ReaderInit ==
    /\ physics_handle = "none"
    /\ graphics_handle = "none"
    /\ static_handle = "none"
    /\ rop = [name |-> "init", raised |-> FALSE, result |-> FALSE,
              failed |-> "none", info |-> None, size |-> None]
    /\ rlog = <<>>

\* ------------------------------------------------- the polling threads
\* The outcome of a call on the monitor, or of a loop iteration of thread
\* number thread (0 for the caller's calls)
Outcome(name, thread, result, started, raises, timed_out) ==
    [name |-> name, thread |-> thread, result |-> result, started |-> started,
     raised |-> raises, timed_out |-> timed_out]

\* self.monitor_thread and self.monitor_thread.is_alive()
MonitorThreadAlive == monitor_thread # None /\ monitor_thread[1] \in polling

SetHandles(t) ==
    /\ physics_handle' = t.handles[1]
    /\ graphics_handle' = t.handles[2]
    /\ static_handle' = t.handles[3]
    /\ telemetry_connected' = t.connected

\* start_monitoring with its thread: the early return while monitoring, the
\* return after a failed telemetry.connect(), and the creation and start of
\* a new thread, which self.monitor_thread then refers to
StartMonitoringThread ==
    /\ \/ /\ is_monitoring
          /\ mop' = Outcome("start_monitoring", 0, TRUE, FALSE, FALSE, FALSE)
          /\ UNCHANGED <<is_monitoring, telemetry_connected, physics_handle,
                         graphics_handle, static_handle, monitor_thread, polling, n_starts>>
       \/ /\ ~is_monitoring
          /\ \E fail \in OpenFailures :
                \E c \in {TelemetryConnected(Telemetry, fail)} :
                   /\ SetHandles(c)
                   /\ \/ /\ ~c.result
                         /\ mop' = Outcome("start_monitoring", 0, FALSE, FALSE, FALSE, FALSE)
                         /\ UNCHANGED <<is_monitoring, monitor_thread, polling, n_starts>>
                      \/ /\ c.result
                         /\ n_starts < MaxStarts
                         /\ is_monitoring' = TRUE
                         /\ n_starts' = n_starts + 1
                         /\ monitor_thread' = Some(n_starts')
                         /\ polling' = polling \cup {n_starts'}
                         /\ mop' = Outcome("start_monitoring", 0, TRUE, TRUE, FALSE, FALSE)
    /\ UNCHANGED <<monitorFields, clock, op, snap, fired, raised, streak_start, race_log,
                   n_raised, rop, rlog>>
    /\ UNCHANGED exceptMonitorReaderAndThreads

\* stop_monitoring with its thread: the flag is cleared, the thread that
\* self.monitor_thread refers to is joined for 2 s when it is alive, and the
\* reader is disconnected.  The join returns either because the thread left
\* its loop or, with the thread inside an iteration that takes longer (a
\* callback that blocks), because the 2 s passed; a disconnect() that raises
\* is raised by stop_monitoring.
StopMonitoringThread ==
    /\ is_monitoring' = FALSE
    /\ \E joined \in (IF MonitorThreadAlive THEN BOOLEAN ELSE {FALSE}) :
          /\ polling' = IF joined THEN polling \ {monitor_thread[1]} ELSE polling
          /\ \E d \in {TelemetryDisconnected(Telemetry)} :
                /\ SetHandles(d)
                /\ mop' = Outcome("stop_monitoring", 0, FALSE, FALSE, d.raised,
                                  MonitorThreadAlive /\ ~joined)
    /\ UNCHANGED <<monitor_thread, n_starts>>
    /\ UNCHANGED <<monitorFields, clock, op, snap, fired, raised, streak_start, race_log,
                   n_raised, rop, rlog>>
    /\ UNCHANGED exceptMonitorReaderAndThreads

\* `while self.is_monitoring:` read as False by a thread: its loop returns
ThreadExit ==
    /\ ~is_monitoring
    /\ \E t \in polling :
          /\ polling' = polling \ {t}
          /\ mop' = Outcome("exit", t, FALSE, FALSE, FALSE, FALSE)
    /\ UNCHANGED <<monitor_thread, n_starts>>
    /\ UNCHANGED <<monitorVars, readerVars>>
    /\ UNCHANGED exceptMonitorReaderAndThreads

\* `while self.is_monitoring:` read as True by a thread: one iteration of its
\* loop, whichever thread set the flag
ThreadTick ==
    /\ is_monitoring
    /\ \E t \in polling :
          mop' = Outcome("tick", t, FALSE, FALSE, FALSE, FALSE)
    /\ \E d \in Gaps, info \in SessionInfoResults : LoopIteration(info, clock + d, "none")
    /\ UNCHANGED <<monitor_thread, polling, n_starts>>
    /\ UNCHANGED exceptMonitorAndThreads

\* ACCSessionMonitor.__init__: no thread
ThreadInit ==
    /\ monitor_thread = None
    /\ polling = {}
    /\ n_starts = 0
    /\ mop = Outcome("init", 0, FALSE, FALSE, FALSE, FALSE)

\* ------------------------------------------------------- the packet ids
\* The 'packet_id' of the snapshot a tick reads, packet_id being that of the
\* last snapshot read: the next frame with any fields, or the frame the
\* previous tick read, with the fields it read.  A tick that gets None reads
\* no packet id.
Frames(info) ==
    IF ~info.available THEN {packet_id}
    ELSE IF packet_id = None THEN {Some(1)}
    ELSE {Some(packet_id[1] + 1)} \cup (IF info = snap THEN {packet_id} ELSE {})

\* One iteration of _monitoring_loop on a snapshot with a packet id:
\* _check_session_state takes 'status' and 'current_time_ms' from it
PacketTick ==
    /\ is_monitoring
    /\ \E d \in Gaps, info \in SessionInfoResults :
          /\ LoopIteration(info, clock + d, "none")
          /\ \E frame \in Frames(info) : packet_id' = frame
    /\ UNCHANGED exceptMonitorAndPacket

PacketInit == packet_id = None

\* ------------------------- the Register command: inputs and the receiver
\* Names and passwords: empty, one byte, a character of two bytes, 255 bytes
\* of one-byte and of two-byte characters, and 256 bytes
RegisterStrings ==
    {<<>>, <<97>>, <<97, 233>>, Text(255, 97), Text(127, 233) \o <<97>>,
     Text(256, 97), Text(128, 233)}

\* Update intervals: the default, zero, negative, more than one byte, and
\* the ends of the range of a 4-byte integer
UpdateIntervals == {250, 0, -1, 70000, 2147483647, -2147483647 - 1}

RegisterInputs ==
    [display_name : RegisterStrings,
     password : RegisterStrings \ {Text(128, 233)},
     update_interval_ms : UpdateIntervals,
     command_password : {<<>>, <<233>>}]

\* connect() calling _send_register_command
SendRegister ==
    /\ ~register_sent.called
    /\ register_sent' = SendRegisterCommand(register_args)
    /\ UNCHANGED <<register_args, register_decoded>>
    /\ UNCHANGED exceptRegister

\* The receiver decoding the datagram
ReceiveRegister ==
    /\ register_sent.called /\ ~register_sent.raised
    /\ register_decoded = None
    /\ register_decoded' = Some(DecodeRegister(register_sent.bytes))
    /\ UNCHANGED <<register_args, register_sent>>
    /\ UNCHANGED exceptRegister

\* No Register command sent yet, with the arguments args
RegisterInitWith(args) ==
    /\ register_args = args
    /\ register_sent = [called |-> FALSE, raised |-> FALSE, bytes |-> <<>>]
    /\ register_decoded = None

RegisterInit == RegisterInitWith(DefaultRegisterArgs)

\* ---------------------------------------------------------- specifications
Init ==
    /\ MonitorInit /\ CurveInit /\ ClientInit /\ ReaderInit /\ RegisterInit /\ CallerInit
    /\ ThreadInit /\ PacketInit

\* The session monitor with callbacks that return.
Next == Tick \/ StartMonitoring \/ StopMonitoring \/ ReaderConnect \/ ReaderDisconnect
Spec == Init /\ [][Next]_vars

\* The session monitor with callbacks and reads that may raise.
NextExc == Next \/ TickRaising
SpecExc == Init /\ [][NextExc]_vars

\* The curve detector.
NextCurve == Update \/ Reset
SpecCurve == Init /\ [][NextCurve]_vars

\* The broadcasting client: connect, disconnect and the receive loop fed
\* datagrams of every kind.
NextClient == Connect \/ Disconnect \/ Receive \/ ReceiveTimeout \/ LoopExit
SpecClient == Init /\ [][NextClient]_vars

\* The connected broadcasting client receiving the entries and the realtime
\* updates of the cars.
InitStandings ==
    /\ MonitorInit /\ CurveInit /\ ClientConnected /\ ReaderInit /\ RegisterInit /\ CallerInit
    /\ ThreadInit /\ PacketInit
NextStandings == ReceiveCarData
SpecStandings == InitStandings /\ [][NextStandings]_vars

\* The broadcasting client under connect() and disconnect() in any order,
\* with a silent server.
NextLifecycle == LifecycleConnect \/ Disconnect \/ ReceiveTimeout \/ LoopExit
SpecLifecycle == Init /\ [][NextLifecycle]_vars

\* A connected client whose receive loop and a caller of get_standings()
\* run side by side.
NextRace == ReceiveDuringCall \/ GetStandingsCall \/ GetStandingsIterate
SpecRace == InitStandings /\ [][NextRace]_vars

\* A Register command encoded and decoded, for every argument.
InitRegister ==
    /\ MonitorInit /\ CurveInit /\ ClientInit /\ ReaderInit /\ CallerInit
    /\ ThreadInit /\ PacketInit
    /\ \E args \in RegisterInputs : RegisterInitWith(args)
NextRegister == SendRegister \/ ReceiveRegister
SpecRegister == InitRegister /\ [][NextRegister]_vars

\* The telemetry reader under its calls in any order.
\* The curve detector over runs longer than its angle history.
NextHistory == LongUpdate \/ Reset
SpecHistory == Init /\ [][NextHistory]_vars

\* The client over several connections, receiving in between.
NextSession == SessionConnect \/ Disconnect \/ SessionReceive \/ LoopExit
SpecSession == Init /\ [][NextSession]_vars

\* The monitor's calls and its polling threads.
NextThreads == StartMonitoringThread \/ StopMonitoringThread \/ ThreadTick \/ ThreadExit
SpecThreads == Init /\ [][NextThreads]_vars

\* The monitor polling snapshots that carry packet ids.
NextPacket == PacketTick \/ StartMonitoring \/ StopMonitoring
SpecPacket == Init /\ [][NextPacket]_vars

NextReader == TelemetryConnect \/ TelemetryDisconnect \/ GetSessionInfo \/ GetPlayerTelemetry
SpecReader == Init /\ [][NextReader]_vars

\* ------------------------------------------------------------------ claims
\* A step that is one tick of the monitor.
TickStep == op' = "tick" /\ clock' > clock

\* The classification the specification gives a tick: by status and session
\* time against the threshold; OFF when no snapshot was available.
ExpectedClass(info) ==
    IF ~info.available THEN "OFF"
    ELSE CASE info.status = "Off" -> "OFF"
           [] info.status = "Replay" -> "REPLAY"
           [] info.status = "Pause" -> "LIVE_PAUSED"
           [] info.status = "Live" /\ info.time <= MinSessionTimeMs -> "LIVE_WAITING"
           [] info.status = "Live" /\ info.time > MinSessionTimeMs -> "LIVE_RACING"
           [] OTHER -> "UNKNOWN"

Count(f, callback) == Len(SelectSeq(f, LAMBDA x : x = callback))
Fired(f, callback) == Count(f, callback) > 0

\* C1: race-started fires on a tick only if every tick of the confirmation
\* window ending at it was classified LIVE_RACING, and every tick that is not
\* LIVE_RACING (the snapshot being unavailable included) leaves the debounce
\* timestamp at "not yet observed".
C1_StartNeedsUnbrokenWindow ==
    op = "tick" =>
        /\ Fired(fired, "on_race_started") =>
               /\ streak_start # None
               /\ clock - streak_start[1] >= TimeCheckDuration
        /\ ExpectedClass(snap) # "LIVE_RACING" => session_time_positive_since = None

\* C2: in an unbroken run of LIVE_RACING ticks, race-started fires on the first
\* tick that is at least time_check_duration after the first tick of the run,
\* and on no other tick of the run.
C2_StartFiresOnceAtWindowEnd ==
    [][(TickStep /\ ExpectedClass(snap') = "LIVE_RACING") =>
          LET first == IF streak_start = None THEN clock' ELSE streak_start[1]
          IN  Count(fired', "on_race_started") =
                 IF ~is_in_race /\ clock' - first >= TimeCheckDuration THEN 1 ELSE 0]_vars

\* C3: a tick classified OFF, MENU or REPLAY while in a race fires race-ended
\* and leaves is_in_race false, also when it is OFF for want of a snapshot.
C3_EndOnOffMenuReplay ==
    [][(TickStep /\ is_in_race /\ ExpectedClass(snap') \in {"OFF", "MENU", "REPLAY"}) =>
          (Fired(fired', "on_race_ended") /\ ~is_in_race')]_vars

\* C4: a tick while in a race whose snapshot has session time 0, the
\* session time recorded before it being positive, fires race-ended and
\* leaves is_in_race false, whatever the status.
C4_EndOnSessionTimeReset ==
    [][(TickStep /\ is_in_race /\ snap'.available /\ snap'.time = 0
          /\ last_session_time_ms > 0) =>
          (Fired(fired', "on_race_ended") /\ ~is_in_race')]_vars

C4_Witness ==
    /\ op = "tick" /\ snap.available /\ snap.status = "Live" /\ snap.time = 0
    /\ fired = <<"on_race_ended", "on_status_changed">>
    /\ ~is_in_race

\* C5: race-started and race-ended alternate, beginning with race-started,
\* and is_in_race is true exactly when the last of them was race-started (so
\* is_in_race never changes without the matching callback).
C5_RaceEventsAlternate ==
    /\ \A i \in 1..Len(race_log) :
          race_log[i] = IF i % 2 = 1 THEN "on_race_started" ELSE "on_race_ended"
    /\ is_in_race <=> (Len(race_log) > 0 /\ race_log[Len(race_log)] = "on_race_started")

C5_Witness == race_log = <<"on_race_started", "on_race_ended">> /\ ~is_in_race

\* C6: a tick fires status-changed exactly once when its classification
\* differs from the status before it and not at all otherwise, and leaves
\* current_status equal to its classification, race callbacks or not.
C6_StatusChanged ==
    [][TickStep =>
          /\ Count(fired', "on_status_changed") =
                IF ExpectedClass(snap') # current_status THEN 1 ELSE 0
          /\ current_status' = ExpectedClass(snap')]_vars

C6_Witness ==
    /\ op = "tick" /\ snap.available /\ current_status = "REPLAY"
    /\ fired = <<"on_race_ended", "on_status_changed">>

\* C7: the classification of a snapshot is a function of its status and its
\* session time against the threshold alone: Off is OFF, Replay is REPLAY,
\* Pause is LIVE_PAUSED, Live is LIVE_WAITING up to the threshold and
\* LIVE_RACING above it, anything else is UNKNOWN.
C7_Classification ==
    (op = "tick" /\ snap.available) =>
        /\ current_status = ExpectedClass(snap)
        /\ (snap.status = "Live" /\ snap.time = 0) => current_status = "LIVE_WAITING"
        /\ (snap.status = "Live" /\ snap.time = 150) => current_status = "LIVE_RACING"
        /\ (snap.status = "Live" /\ snap.time = 100) => current_status = "LIVE_WAITING"
        /\ snap.status = "Off" => current_status = "OFF"

C7_Witness ==
    /\ op = "tick" /\ snap.available /\ snap.status = "Live" /\ snap.time = 100
    /\ current_status = "LIVE_WAITING" /\ is_in_race

\* C8: a tick in which a call raises leaves the monitor's fields as they were.
C8_RaisingTickChangesNothing ==
    [][(TickStep /\ raised') => UNCHANGED monitorFields]_vars

\* A step that is one update() call, and the sample it was given.
UpdateStep == n_updates' = n_updates + 1
Sample == history'[Len(history')]

IsStraight(angle) == angle <= ThresholdAngle /\ angle >= -ThresholdAngle

\* The number of straight samples at the end of a history.
TrailingStraight(h) ==
    LET ks == {k \in 0..Len(h) : \A i \in (Len(h) - k + 1)..Len(h) : IsStraight(h[i])}
    IN  CHOOSE k \in ks : \A j \in ks : j <= k

\* The open curve is counted and logged.
CurveCounted ==
    /\ total_curves' = total_curves + 1
    /\ left_curves' = left_curves + (IF current_curve_direction = "left" THEN 1 ELSE 0)
    /\ right_curves' = right_curves + (IF current_curve_direction = "right" THEN 1 ELSE 0)
    /\ curves_log' = Append(curves_log, [curve_number |-> total_curves + 1,
                                          direction |-> current_curve_direction,
                                          duration_samples |-> curve_samples])

NothingCounted == UNCHANGED <<total_curves, left_curves, right_curves, curves_log>>

CountedIfLongEnough == IF curve_samples >= MinDuration THEN CurveCounted ELSE NothingCounted

\* C9: a sample of the opposite direction while a curve is open closes the
\* curve in that update, counting and logging it exactly when it has at least
\* min_duration samples, and leaves a curve of the new direction open with
\* sample count 1.
C9_DirectionChangeClosesAndReopens ==
    [][(/\ UpdateStep
        /\ in_curve
        /\ \/ current_curve_direction = "right" /\ Sample < -ThresholdAngle
           \/ current_curve_direction = "left" /\ Sample > ThresholdAngle) =>
          /\ CountedIfLongEnough
          /\ in_curve'
          /\ current_curve_direction' = (IF Sample > ThresholdAngle THEN "right" ELSE "left")
          /\ curve_samples' = 1]_vars

C9_Witness ==
    /\ history = <<20, 20, -20>>
    /\ in_curve /\ current_curve_direction = "left" /\ curve_samples = 1
    /\ total_curves = 1 /\ right_curves = 1 /\ left_curves = 0
    /\ curves_log = <<[curve_number |-> 1, direction |-> "right", duration_samples |-> 2]>>

\* C10: straight samples close an open curve only on the update that makes
\* cooldown_samples straight samples in a row: that update counts and logs the
\* curve exactly when it has at least min_duration samples and leaves no curve
\* open, direction None, sample count 0; an earlier straight sample changes no
\* counter and leaves the curve open.
C10_CooldownCloses ==
    [][(UpdateStep /\ in_curve /\ IsStraight(Sample)) =>
          IF TrailingStraight(history') >= CooldownSamples
          THEN /\ CountedIfLongEnough
               /\ ~in_curve'
               /\ current_curve_direction' = "None"
               /\ curve_samples' = 0
          ELSE /\ NothingCounted
               /\ in_curve'
               /\ UNCHANGED <<current_curve_direction, curve_samples>>]_vars

C10_Witness ==
    /\ history = <<-20, -20, 15, 0, -15>>
    /\ ~in_curve /\ current_curve_direction = "None" /\ curve_samples = 0
    /\ total_curves = 1 /\ left_curves = 1 /\ right_curves = 0
    /\ curves_log = <<[curve_number |-> 1, direction |-> "left", duration_samples |-> 2]>>

\* The samples of a history that end a run of at least min_duration samples
\* of direction dir and are followed by a sample of another direction.
ClosedRuns(h, dir) ==
    {i \in 1..(Len(h) - 1) :
        /\ Direction(h[i]) = dir
        /\ Direction(h[i + 1]) # dir
        /\ i >= MinDuration
        /\ \A j \in (i - MinDuration + 1)..i : Direction(h[j]) = dir}

NoStraightSample(h) == \A i \in 1..Len(h) : ~IsStraight(h[i])

\* C11 as stated: strictly alternating +20 / -20 samples with no straight
\* sample between them yield two closed curves, one left and one right, both
\* closed by the direction-change branch.
C11_AlternatingSamplesCloseTwoCurves ==
    history \in {<<20, -20, 20>>, <<-20, 20, -20>>} =>
        /\ total_curves = 2 /\ left_curves = 1 /\ right_curves = 1
        /\ closures = <<"direction_change", "direction_change">>

\* C11: fed turning samples only (no straight sample), a fresh detector counts
\* exactly the runs of at least min_duration same-direction samples that are
\* followed by a sample of the other direction, each closed by the
\* direction-change branch and none by cooldown; +20, +20, -20, -20, +20 gives
\* two closed curves, one right and one left, and strictly alternating single
\* samples give none.
C11_AlternatingRunsCloseTwoCurves ==
    NoStraightSample(history) =>
        /\ right_curves = Cardinality(ClosedRuns(history, "right"))
        /\ left_curves = Cardinality(ClosedRuns(history, "left"))
        /\ total_curves = left_curves + right_curves
        /\ Len(closures) = total_curves
        /\ \A k \in 1..Len(closures) : closures[k] = "direction_change"
        /\ history \in {<<20, 20, -20, -20, 20>>, <<-20, -20, 20, 20, -20>>} =>
               total_curves = 2 /\ left_curves = 1 /\ right_curves = 1
        /\ history \in {<<20, -20, 20>>, <<-20, 20, -20>>} => total_curves = 0

C11_Witness ==
    /\ history = <<20, 20, -20, -20, 20>>
    /\ total_curves = 2 /\ left_curves = 1 /\ right_curves = 1
    /\ closures = <<"direction_change", "direction_change">>
    /\ curve_finished /\ ~curve_detected

\* A history that rises from 0 to 30 and returns to 0.
IsRamp(h) ==
    /\ Len(h) >= 1
    /\ h[1] = 0
    /\ h[Len(h)] = 0
    /\ \E p \in 1..Len(h) :
          /\ h[p] = 30
          /\ \A i \in 1..(p - 1) : h[i] <= h[i + 1]
          /\ \A i \in p..(Len(h) - 1) : h[i] >= h[i + 1]

SamplesAbove(h) == Cardinality({i \in 1..Len(h) : h[i] > ThresholdAngle})

\* C12: a ramp from 0 up to 30 and back to 0, with at least min_duration
\* samples above the threshold followed by at least cooldown_samples samples at
\* or below it, ends with one curve counted, a right one, and no curve open.
C12_RampCountsOneRightCurve ==
    (/\ IsRamp(history)
     /\ SamplesAbove(history) >= MinDuration
     /\ TrailingStraight(history) >= CooldownSamples) =>
        /\ total_curves = 1 /\ right_curves = 1 /\ left_curves = 0
        /\ ~in_curve

C12_Witness ==
    /\ history = <<0, 20, 30, 15, 0, 0>>
    /\ total_curves = 1 /\ right_curves = 1 /\ left_curves = 0
    /\ ~in_curve
    /\ closures = <<"cooldown">>

\* An update opens a curve of direction dir and closes or counts nothing.
Opens(dir) ==
    /\ in_curve'
    /\ current_curve_direction' = dir
    /\ curve_samples' = 1
    /\ cooldown_counter' = 0
    /\ NothingCounted
    /\ ~curve_finished' /\ ~curve_detected'

\* C13: a sample is Right exactly when its angle is above the threshold, Left
\* exactly when it is below minus the threshold, None otherwise (the threshold
\* itself is None); with no curve open, a Right or Left sample opens a curve of
\* its direction with sample count 1 and cooldown counter 0 and closes or
\* counts nothing, and a None sample opens nothing.
C13_DirectionAndOpening ==
    [][(UpdateStep /\ ~in_curve) =>
          IF Sample > ThresholdAngle THEN Opens("right")
          ELSE IF Sample < -ThresholdAngle THEN Opens("left")
          ELSE /\ ~in_curve'
               /\ UNCHANGED <<current_curve_direction, curve_samples>>
               /\ NothingCounted]_vars

C13_Witness ==
    /\ history = <<15, -15, -20>>
    /\ in_curve /\ current_curve_direction = "left"
    /\ curve_samples = 1 /\ cooldown_counter = 0
    /\ total_curves = 0 /\ curves_log = <<>>

\* The counters agree with each other and with the log.
CountersAgree ==
    /\ total_curves = left_curves + right_curves
    /\ total_curves = Len(curves_log)
    /\ \A k \in 1..Len(curves_log) :
          /\ curves_log[k].curve_number = k
          /\ curves_log[k].direction \in {"left", "right"}

\* C14: after every update(), total_curves = left_curves + right_curves =
\* the length of curves_log, the k-th log entry has curve_number k and
\* direction Left or Right, and the update raised total_curves by 0 or 1.
C14_CountersAgreeWithLog ==
    [][UpdateStep => /\ CountersAgree'
                     /\ total_curves' - total_curves \in {0, 1}]_vars

C14_Witness ==
    /\ history = <<-20, -20, 20, 20, -20>>
    /\ total_curves = 2 /\ left_curves = 1 /\ right_curves = 1
    /\ curves_log = <<[curve_number |-> 1, direction |-> "left", duration_samples |-> 2],
                      [curve_number |-> 2, direction |-> "right", duration_samples |-> 2]>>

\* A step that is one iteration of the receive loop with a datagram, a step
\* that is one disconnect() call, and the datagram of a receive step.
ReceiveStep == cop'.name = "receive"
DisconnectStep == cop'.name = "disconnect"
Datagram == received'[1]

\* The cars that have both an entry and a realtime update.
JoinedCars(entries, realtime_items) == DictKeys(entries) \cap DictKeys(realtime_items)

\* The rows of a standings list that are about a car, and the first of them.
Rows(standings, car_index) ==
    {i \in 1..Len(standings) : standings[i].car_index = car_index}

RowOf(standings, car_index) == standings[CHOOSE i \in Rows(standings, car_index) : TRUE]

\* The place of a car in the order of realtime_data.
PlaceOf(car_index) == CHOOSE i \in 1..Len(realtime_data) : realtime_data[i][1] = car_index

OneRowPerJoinedCar(standings) ==
    /\ Len(standings) = Cardinality(JoinedCars(entry_list, realtime_data))
    /\ \A car_index \in JoinedCars(entry_list, realtime_data) :
          Cardinality(Rows(standings, car_index)) = 1

\* C15 as stated: get_standings() is sorted strictly ascending by position,
\* with one row for every car index present in both dicts and no other row.
C15_StandingsStrictlyAscending ==
    \A standings \in {GetStandings} :
        /\ \A i \in 1..(Len(standings) - 1) : standings[i].position < standings[i + 1].position
        /\ OneRowPerJoinedCar(standings)

\* C15: get_standings() is sorted ascending by position, cars of the same
\* position staying in the order of realtime_data, with one row for every car
\* index present in both dicts and no other row.
C15_StandingsAscending ==
    \A standings \in {GetStandings} :
        /\ \A i \in 1..(Len(standings) - 1) :
              \/ standings[i].position < standings[i + 1].position
              \/ /\ standings[i].position = standings[i + 1].position
                 /\ PlaceOf(standings[i].car_index) < PlaceOf(standings[i + 1].car_index)
        /\ OneRowPerJoinedCar(standings)

C15_Witness ==
    /\ Len(GetStandings) = 2
    /\ GetStandings[1].position = 1 /\ GetStandings[2].position = 1
    /\ GetStandings[1].car_index = 1 /\ GetStandings[2].car_index = 0

\* The realtime values of a row are those of a realtime record.
RowCarries(row, realtime) ==
    /\ row.position = realtime.position
    /\ row.laps = realtime.laps
    /\ row.delta = realtime.delta
    /\ row.location = realtime.car_location
    /\ row.best_session_lap = realtime.best_session_lap
    /\ row.last_lap = realtime.last_lap
    /\ row.current_lap = realtime.current_lap

\* C16: after every datagram, a car is in get_standings() exactly when it has
\* both an entry (its EntryListCar was processed) and a realtime record (a
\* RealtimeCarUpdate of it was processed), whichever arrived first; the
\* datagram that completes the pair, of either kind, puts the car in the
\* standings, and after a RealtimeCarUpdate or the completing EntryListCar the
\* car's row carries the values of its latest RealtimeCarUpdate.
C16_StandingsJoinBothDicts ==
    [][ReceiveStep =>
          \A datagram \in {Datagram}, after \in {Standings(entry_list', realtime_data')} :
             /\ \A car_index \in CarIndices :
                   Rows(after, car_index) # {} <=>
                       car_index \in JoinedCars(entry_list', realtime_data')
             /\ (/\ datagram.tag = ENTRY_LIST_CAR
                 /\ datagram.msg.car_index \notin DictKeys(entry_list)
                 /\ datagram.msg.car_index \in DictKeys(realtime_data)) =>
                    /\ Rows(GetStandings, datagram.msg.car_index) = {}
                    /\ Rows(after, datagram.msg.car_index) # {}
                    /\ RowCarries(RowOf(after, datagram.msg.car_index),
                                  DictGet(realtime_data, datagram.msg.car_index))
             /\ (/\ datagram.tag = REALTIME_CAR_UPDATE
                 /\ datagram.msg.car_index \in DictKeys(entry_list)) =>
                    /\ Rows(after, datagram.msg.car_index) # {}
                    /\ RowCarries(RowOf(after, datagram.msg.car_index), datagram.msg)]_vars

C16_Witness ==
    /\ added = Some(<<ENTRY_LIST_CAR, 1>>)
    /\ DictKeys(realtime_data) = {1}
    /\ Len(GetStandings) = 1
    /\ GetStandings[1].car_index = 1
    /\ GetStandings[1].position = 2

\* The name the fallback chain gives: 'first last' trimmed, else the short
\* name, else "Unknown"; "Unknown" too when the driver index is out of range.
FallbackName(entry, realtime) ==
    IF realtime.driver_index < Len(entry.drivers)
    THEN LET current_driver == entry.drivers[realtime.driver_index + 1]
             full_name == Strip(current_driver.first_name \o <<" ">>
                                \o current_driver.last_name)
         IN  IF Len(full_name) > 0 THEN full_name
             ELSE IF Len(current_driver.short_name) > 0 THEN current_driver.short_name
             ELSE Unknown
    ELSE Unknown

\* C17: every row's display name is 'first last' trimmed when that is
\* non-empty, otherwise the short name when that is non-empty, otherwise
\* "Unknown", also when the driver index is outside the drivers list; it is
\* never the empty string.
C17_DisplayNameFallback ==
    \A standings \in {GetStandings} :
        \A i \in 1..Len(standings) :
            /\ standings[i].driver_name =
                   FallbackName(DictGet(entry_list, standings[i].car_index),
                                DictGet(realtime_data, standings[i].car_index))
            /\ Len(standings[i].driver_name) > 0

\* The realtime record and the entry a message carries.
RealtimeOf(msg) ==
    [driver_index |-> msg.driver_index, car_location |-> msg.car_location,
     position |-> msg.position, laps |-> msg.laps, delta |-> msg.delta,
     best_session_lap |-> msg.best_session_lap, last_lap |-> msg.last_lap,
     current_lap |-> msg.current_lap]

EntryOf(msg) ==
    [car_model_type |-> msg.car_model_type, team_name |-> msg.team_name,
     race_number |-> msg.race_number, cup_category |-> msg.cup_category,
     current_driver_index |-> msg.current_driver_index,
     nationality |-> msg.nationality, drivers |-> msg.drivers]

\* Dict after is dict before with key set to value and nothing else changed.
OnlyKeySet(before, after, key, value) ==
    /\ DictKeys(after) = DictKeys(before) \cup {key}
    /\ DictGet(after, key) = value
    /\ \A other \in DictKeys(before) \ {key} : DictGet(after, other) = DictGet(before, other)

\* C18: a RealtimeCarUpdate for car i replaces realtime_data[i] by the record
\* of the message and leaves the other cars' records and entry_list unchanged;
\* an EntryListCar for car i sets entry_list[i] to the entry of the message and
\* leaves the other entries and realtime_data unchanged.
C18_WholesaleReplacement ==
    [][ReceiveStep =>
          \A datagram \in {Datagram} :
             /\ datagram.tag = REALTIME_CAR_UPDATE =>
                   /\ OnlyKeySet(realtime_data, realtime_data', datagram.msg.car_index,
                                 RealtimeOf(datagram.msg))
                   /\ UNCHANGED entry_list
             /\ datagram.tag = ENTRY_LIST_CAR =>
                   /\ OnlyKeySet(entry_list, entry_list', datagram.msg.car_index,
                                 EntryOf(datagram.msg))
                   /\ UNCHANGED realtime_data]_vars

C18_Witness ==
    /\ Len(realtime_data) = 2
    /\ realtime_data[1][1] = 0 /\ realtime_data[2][1] = 1
    /\ received # None /\ received[1].tag = REALTIME_CAR_UPDATE
    /\ received[1].msg.car_index = 0 /\ received[1].msg.position = 2
    /\ received[1].msg.driver_index = 1
    /\ DictGet(realtime_data, 0) = RealtimeOf(received[1].msg)
    /\ Len(entry_list) = 1

InboundMessageTypes ==
    {REGISTRATION_RESULT, REALTIME_UPDATE, REALTIME_CAR_UPDATE, ENTRY_LIST, TRACK_DATA,
     ENTRY_LIST_CAR, BROADCASTING_EVENT}

\* A datagram that is empty, of unknown tag, or shorter than its message.
Malformed(datagram) ==
    \/ datagram.size = 0
    \/ datagram.tag \notin InboundMessageTypes
    \/ datagram.size < FullSize(datagram)

\* C19: a datagram that is empty, carries an unknown tag or is too short for
\* its message leaves entry_list, realtime_data, session_info and track_data
\* as they were and does not end the receive loop, which goes on while
\* running is set.
C19_MalformedDatagramChangesNothing ==
    [][(ReceiveStep /\ Malformed(Datagram)) =>
          /\ UNCHANGED <<entry_list, realtime_data, session_info, track_data>>
          /\ UNCHANGED <<threads, running>>]_vars

\* C20: disconnect() on a connected client sends UNREGISTER, clears running,
\* joins the receive thread and closes the socket, in this order, and leaves
\* running and connected false, whatever the outcome of the send.
C20_DisconnectStopsTheLoop ==
    [][(DisconnectStep /\ connected /\ running /\ socket = "open") =>
          /\ cop'.steps = <<"send_unregister", "running_false", "join", "close">>
          /\ ~running'
          /\ ~connected'
          /\ socket' = "closed"]_vars

\* C27: while a curve is open, a sample of its direction that follows fewer
\* than cooldown_samples straight samples closes and counts nothing, puts the
\* cooldown counter back at 0 and goes on with the same curve, its sample
\* count one higher; the straight samples before it left the sample count as
\* it was.
C27_ShortNoiseDoesNotSplit ==
    [][/\ (/\ UpdateStep /\ in_curve
           /\ TrailingStraight(history) \in 1..(CooldownSamples - 1)
           /\ Direction(Sample) = current_curve_direction)
          => /\ NothingCounted
             /\ ~curve_finished' /\ ~curve_detected'
             /\ cooldown_counter' = 0
             /\ in_curve'
             /\ UNCHANGED current_curve_direction
             /\ curve_samples' = curve_samples + 1
       /\ (/\ UpdateStep /\ in_curve /\ IsStraight(Sample)
           /\ TrailingStraight(history') < CooldownSamples)
          => /\ UNCHANGED curve_samples
             /\ cooldown_counter' = TrailingStraight(history')]_vars

\* A right curve of two samples with a straight sample between them was
\* counted once, with two samples
C27_Witness ==
    /\ history = <<20, 0, 20, 0, 0, 0>>
    /\ total_curves = 1 /\ right_curves = 1 /\ ~in_curve
    /\ curves_log = <<[curve_number |-> 1, direction |-> "right", duration_samples |-> 2]>>

\* ------------------------------------- claims about the telemetry reader
\* A step of SpecReader that is a call of the named method
ReaderStep(name) == rlog' # rlog /\ rop'.name = name

AllOpen(physics, graphics, static) ==
    physics = "open" /\ graphics = "open" /\ static = "open"

\* C21: connect() and disconnect() of the memory-region reader, called in
\* any order and any number of times, never raise, and after each
\* disconnect() the connected flag is false.
C21_ConnectDisconnectNeverRaise ==
    rop.name \in {"connect", "disconnect"}
        => /\ ~rop.raised
           /\ rop.name = "disconnect" => ~telemetry_connected

\* C24: ACCTelemetry.connect() never raises; called while connected it
\* returns true and leaves the three handles as they are; when the mapping of
\* a region fails it returns false with connected false; it returns what
\* connected is afterwards; and connected is true only with three open handles.
C24_ConnectIdempotent ==
    [][/\ telemetry_connected' => AllOpen(physics_handle', graphics_handle', static_handle')
       /\ ReaderStep("connect")
            => /\ ~rop'.raised
               /\ rop'.result = telemetry_connected'
               /\ telemetry_connected
                    => /\ rop'.result
                       /\ UNCHANGED <<physics_handle, graphics_handle, static_handle>>
               /\ rop'.failed # "none" => ~rop'.result /\ ~telemetry_connected']_vars

\* connect() was called while connected, after a connect() that failed and
\* one that did not
C24_Witness ==
    /\ Len(rlog) = 3
    /\ \A i \in 1..3 : rlog[i].name = "connect"
    /\ ~rlog[1].result /\ rlog[2].result /\ rlog[3].result
    /\ telemetry_connected

\* The least buffer a get_ call decodes in full
MinimumSize(name) ==
    IF name = "get_session_info" THEN LayoutSize(GraphicsLayout) ELSE LayoutSize(PhysicsLayout)

\* A returned value that is a snapshot
IsSnapshot(value) == value # None /\ "partial" \in DOMAIN value[1]

\* C25: a get_ call that decodes a buffer shorter than the minimum returns a
\* failure that is neither the no-data outcome of a reader that is not
\* connected (None) nor a snapshot.
C25_ShortBufferIsDistinctFailure ==
    (/\ rop.name \in {"get_session_info", "get_player_telemetry"}
     /\ rop.size # None
     /\ rop.size[1] < MinimumSize(rop.name))
        => rop.info # None /\ ~IsSnapshot(rop.info)

\* ------------------------------------ claims about the client's lifecycle
\* A step that is a connect() call
ConnectStep == cop'.name = "connect" /\ n_connects' # n_connects

\* The place of a statement among the steps of a call, 0 when it was not reached
StepAt(steps, statement) ==
    IF \E i \in DOMAIN steps : steps[i] = statement
    THEN CHOOSE i \in DOMAIN steps : steps[i] = statement
    ELSE 0

\* s is t without one or more of its last elements
IsStrictPrefix(s, t) == Len(s) < Len(t) /\ s = SubSeq(t, 1, Len(s))

\* C22: over any sequence of connect() and disconnect() calls the client
\* has at most one receive thread that has not left its loop.
C22_AtMostOneReceiveThread == Cardinality(threads) <= 1

\* C23: connect() sends Register (1), RequestEntryList (10) and
\* RequestTrackData (11) in that order and before it starts the receive
\* thread, then starts one thread and returns true without receiving
\* anything; when the socket or a send fails it is left with connected false,
\* no new thread, and no statement run twice.
C23_ConnectSendsThenStartsLoop ==
    [][ConnectStep =>
         /\ received' = None
         /\ UNCHANGED <<entry_list, realtime_data, session_info, track_data>>
         /\ IF ~cop'.raised
            THEN /\ sent' = sent \o <<1, 10, 11>>
                 /\ \A statement \in {"register", "request_entry_list", "request_track_data"} :
                       /\ 0 < StepAt(cop'.steps, statement)
                       /\ StepAt(cop'.steps, statement) < StepAt(cop'.steps, "start_thread")
                 /\ connected' /\ running'
                 /\ Cardinality(threads' \ threads) = 1
                 /\ receive_thread' # None /\ receive_thread'[1] \in threads' \ threads
            ELSE /\ ~connected'
                 /\ threads' = threads
                 /\ UNCHANGED <<running, receive_thread>>
                 /\ StepAt(cop'.steps, "start_thread") = 0
                 /\ \E tags \in {<<>>, <<1>>, <<1, 10>>} : sent' = sent \o tags]_vars

\* connect() returned true with the three requests sent, its thread started
\* and nothing received
C23_Witness ==
    /\ cop.name = "connect" /\ ~cop.raised
    /\ sent = <<1, 10, 11>>
    /\ threads = {1} /\ connected
    /\ session_info = EmptyDict

\* ---------------------------------------- claims about the Register command
\* C26: the Register command is tag 1, version 4, the display name, the
\* connection password, the 4-byte update interval and the command password,
\* each string as one length byte and its bytes; names and passwords of at
\* most 255 bytes are encoded, and decoding the bytes field by field gives
\* back the strings and the interval that were encoded, with no byte left.
C26_RegisterRoundTrip ==
    /\ (/\ register_sent.called
        /\ \A s \in {register_args.display_name, register_args.password,
                     register_args.command_password} : Len(Utf8Encode(s)) <= 255)
          => ~register_sent.raised
    /\ register_decoded # None
          => /\ register_decoded[1].tag = 1
             /\ register_decoded[1].version = 4
             /\ register_decoded[1].display_name = register_args.display_name
             /\ register_decoded[1].password = register_args.password
             /\ register_decoded[1].update_interval_ms = register_args.update_interval_ms
             /\ register_decoded[1].command_password = register_args.command_password
             /\ register_decoded[1].rest = 0

\* A name of 255 bytes in 128 characters, a password of 255 bytes and the
\* greatest interval were encoded and decoded
C26_Witness ==
    /\ register_decoded # None
    /\ register_args.display_name = Text(127, 233) \o <<97>>
    /\ register_args.password = Text(255, 97)
    /\ register_args.update_interval_ms = 2147483647
    /\ Len(register_sent.bytes) = 2 + 256 + 256 + 4 + 3

\* ------------------------------- claims about get_standings on its thread
\* C28: nothing holds the receive thread back while get_standings() iterates
\* the realtime map: a call during which a RealtimeCarUpdate added a car
\* index ends with RuntimeError, and only such a call does; a call during
\* which no datagram was processed returns the standings of that instant.
C28_UnsynchronizedStandings ==
    call.result # None
        => /\ call.result[1].raised <=> call.inserted
           /\ call.overlaps = 0
                => ~call.result[1].raised /\ call.result[1].standings \in call.seen

\* A call that had yielded a car when a RealtimeCarUpdate added another one,
\* and failed
C28_Witness ==
    /\ call.result # None /\ call.result[1].raised
    /\ call.pos = 1 /\ call.used = 1 /\ call.overlaps = 1
    /\ Len(realtime_data) = 2
    /\ received # None /\ received[1].tag = REALTIME_CAR_UPDATE

\* ------------------------------------------- claims on the polling threads
\* C29: at most one polling thread executes ticks at any time, over any
\* sequence of start_monitoring() and stop_monitoring() calls: a start while
\* monitoring returns true and starts no thread, a start whose connect fails
\* returns false and starts no thread, and while the monitor is monitoring no
\* two threads are in _monitoring_loop, also after a stop whose join timed out.
C29_AtMostOnePollingThread ==
    /\ mop.name = "start_monitoring" /\ ~mop.started
          => mop.result = is_monitoring
    /\ mop.name = "start_monitoring" /\ ~mop.result => ~mop.started
    /\ is_monitoring => Cardinality(polling) <= 1

\* ------------------------------------------------ claims on the packet ids
\* A tick that read a snapshot whose packet id is not above that of the
\* snapshot the previous tick read
StaleTick ==
    /\ op = "tick" /\ op' = "tick"
    /\ snap.available /\ snap'.available
    /\ packet_id' = packet_id

\* C30: a tick whose snapshot carries a packet id that has not increased
\* since the previous tick's snapshot changes no field of the monitor and
\* invokes no callback.
C30_StaleTickChangesNothing ==
    [][StaleTick => /\ UNCHANGED monitorFields
                    /\ fired' = <<>>]_vars

\* ------------------------------------- claims on a session of the client
\* A loop iteration that received a whole RegistrationResult
RegistrationStep ==
    /\ ReceiveStep
    /\ received' # None
    /\ received'[1] \in RegistrationResults

\* C31: processing a RegistrationResult, accepted or rejected, changes none
\* of connected, running, entry_list, realtime_data, session_info and
\* track_data; a rejected client stays connected.
C31_RegistrationResultChangesNothing ==
    [][RegistrationStep =>
          UNCHANGED <<connected, running, entry_list, realtime_data, session_info,
                      track_data>>]_vars

\* A connected client with entries has just processed a rejection
C31_Witness ==
    /\ cop.name = "receive"
    /\ received # None
    /\ received[1] \in RegistrationResults
    /\ received[1].msg.success = 0
    /\ connected
    /\ Len(entry_list) > 0

\* The datagrams sent so far that are commands with a connection id
IsCommand(bytes) ==
    bytes[1] \in {UNREGISTER_COMMAND_APPLICATION, REQUEST_ENTRY_LIST, REQUEST_TRACK_DATA}

\* C32: every Unregister, RequestEntryList and RequestTrackData sent is the
\* tag followed by connection id 1, whatever id the server returned and
\* however often the client connected.
C32_CommandsCarryConnectionIdOne ==
    /\ Len(wire) = Len(sent)
    /\ \A i \in 1..Len(wire) :
          /\ wire[i][1] = sent[i]
          /\ IsCommand(wire[i]) => Len(wire[i]) = 5 /\ UnpackInt(SubSeq(wire[i], 2, 5)) = 1

\* The server returned connection id 7 on the first connection, and the
\* client, connected a second time, has just sent its Unregister
C32_Witness ==
    /\ registered = Some(7)
    /\ n_connects = 2
    /\ cop.name = "disconnect" /\ ~cop.raised
    /\ sent = <<1, 10, 11, 9, 1, 10, 11, 9>>

\* C33: no operation removes a car index from entry_list or realtime_data;
\* an EntryList message changes neither, nor do disconnect() and connect().
C33_CarsAreNeverRemoved ==
    [][/\ DictKeys(entry_list) \subseteq DictKeys(entry_list')
       /\ DictKeys(realtime_data) \subseteq DictKeys(realtime_data')
       /\ \/ cop'.name \in {"connect", "disconnect"}
          \/ ReceiveStep /\ received' # None /\ received'[1].tag = ENTRY_LIST
          => UNCHANGED <<entry_list, realtime_data>>]_vars

\* After a disconnect() and a second connect() that received nothing yet, the
\* standings hold both cars of the first connection
C33_Witness ==
    /\ cop.name = "connect" /\ ~cop.raised
    /\ sent = <<1, 10, 11, 9, 1, 10, 11>>
    /\ DictKeys(entry_list) = {0, 1}
    /\ Len(Standings(entry_list, realtime_data)) = 2

\* ------------------------------------------ further claims on the monitor
\* C34: current_status is MENU in no reachable state, and a tick that fires
\* race-ended was classified OFF or REPLAY or read session time 0.
C34_StatusIsNeverMenu ==
    /\ current_status # "MENU"
    /\ (op = "tick" /\ Fired(fired, "on_race_ended")) =>
          /\ snap.available
          /\ ExpectedClass(snap) \in {"OFF", "REPLAY"} \/ snap.time = 0

\* A tick during a race read a status that is none of Off, Replay, Pause, Live
C34_Witness ==
    /\ op = "tick" /\ snap.available /\ snap.status = "Unknown"
    /\ current_status = "UNKNOWN"
    /\ is_in_race

\* C35: during a race a tick classified LIVE_PAUSED, LIVE_WAITING or UNKNOWN
\* whose session time is not 0, or is 0 with the recorded session time 0 too,
\* fires no race-ended and leaves is_in_race, race_started_time and
\* session_type unchanged.
C35_PauseDoesNotEndRace ==
    [][(/\ TickStep
        /\ is_in_race
        /\ snap'.available
        /\ ExpectedClass(snap') \in {"LIVE_PAUSED", "LIVE_WAITING", "UNKNOWN"}
        /\ snap'.time # 0 \/ last_session_time_ms = 0) =>
          /\ ~Fired(fired', "on_race_ended")
          /\ UNCHANGED <<is_in_race, race_started_time, session_type>>]_vars

\* A race was paused below the threshold and goes on
C35_Witness ==
    /\ op = "tick" /\ snap.available /\ snap.status = "Pause" /\ snap.time = 50
    /\ fired = <<"on_status_changed">>
    /\ current_status = "LIVE_PAUSED"
    /\ is_in_race

\* C36: in a tick that invokes a race callback, the race callback is the
\* first callback and runs with current_status as it was before the tick;
\* status-changed comes after it; and a race-ended in a tick whose
\* classification, OFF or REPLAY, differs from the status before is followed
\* by the status-changed to that classification.
C36_RaceCallbackBeforeStatusChanged ==
    [][(TickStep /\ \E i \in DOMAIN fired' : IsRaceCallback(fired'[i])) =>
          /\ IsRaceCallback(fired'[1])
          /\ \A i \in 2..Len(fired') : fired'[i] = "on_status_changed"
          /\ CheckSessionState(Monitor, snap', clock', fired'[1]).current_status
                = current_status
          /\ (/\ fired'[1] = "on_race_ended"
              /\ ExpectedClass(snap') \in {"OFF", "REPLAY"}
              /\ ExpectedClass(snap') # current_status) =>
                /\ fired' = <<"on_race_ended", "on_status_changed">>
                /\ current_status' = ExpectedClass(snap')]_vars

\* A race that was paused ended with the session going Off
C36_Witness ==
    /\ op = "tick" /\ snap.available /\ snap.status = "Off"
    /\ fired = <<"on_race_ended", "on_status_changed">>
    /\ current_status = "OFF"
    /\ race_log = <<"on_race_started", "on_race_ended">>

\* C37: stop_monitoring invokes no callback and leaves the monitor's race and
\* status fields and the debounce timestamp unchanged, as does
\* start_monitoring; and no tick of a monitor that is in a race fires
\* race-started.
C37_StopKeepsTheRace ==
    [][/\ op' = "stop_monitoring" => UNCHANGED <<monitorFields, race_log>> /\ fired' = <<>>
       /\ op' = "start_monitoring" => UNCHANGED <<monitorFields, race_log>>
       /\ (TickStep /\ is_in_race) => ~Fired(fired', "on_race_started")]_vars

\* A monitor stopped during a race
C37_Witness ==
    /\ op = "stop_monitoring"
    /\ ~is_monitoring
    /\ is_in_race
    /\ race_started_time # None
    /\ current_status = "LIVE_RACING"
    /\ race_log = <<"on_race_started">>

\* ----------------------------------- further claims on the curve detector
\* An update() call on a sample that ends the open curve: a turn the other
\* way, or the straight sample that completes the cooldown
CurveEnds ==
    /\ UpdateStep
    /\ in_curve
    /\ \/ Direction(Sample) \notin {"None", current_curve_direction}
       \/ Direction(Sample) = "None" /\ cooldown_counter + 1 >= CooldownSamples

\* C38: every entry of curves_log has duration_samples >= min_duration, and
\* a curve that ends with fewer samples leaves the three counters and the
\* log unchanged.
C38_ShortCurvesAreDiscarded ==
    [][/\ \A i \in DOMAIN curves_log' : curves_log'[i].duration_samples >= MinDuration
       /\ (CurveEnds /\ curve_samples < MinDuration) =>
             UNCHANGED <<total_curves, left_curves, right_curves, curves_log>>]_vars

\* A right turn of one sample was discarded by the left turn that followed,
\* which was logged when the next right turn ended it
C38_Witness ==
    /\ history = <<20, -20, -20, 20>>
    /\ total_curves = 1 /\ left_curves = 1 /\ right_curves = 0
    /\ curves_log[1].duration_samples = 2

\* C39: in_curve holds exactly when a direction is set, with at least one
\* sample counted; outside a curve no sample is counted; the cooldown counter
\* is at most cooldown_samples; the history holds at most 10 angles.
C39_DetectorInvariants ==
    /\ in_curve <=> current_curve_direction # "None"
    /\ in_curve => curve_samples >= 1
    /\ ~in_curve => curve_samples = 0
    /\ cooldown_counter <= CooldownSamples
    /\ Len(history) <= HistoryMaxLen

\* A curve of eleven samples: the history has dropped the first
C39_Witness ==
    /\ in_curve
    /\ curve_samples = 11
    /\ Len(history) = 10

====
